---- MODULE Spec2Model ----
(***************************************************************************)
(* A model of the robotic arm controllers of this repository.  The        *)
(* repository holds several variants of one Tk program; three of them are *)
(* modelled here, over the same variables:                                 *)
(*   Command.py          definitions Cmd_...,  SpecCommand and             *)
(*                       SpecCommandPresets                                *)
(*   test.py             definitions Test_..., SpecTest                    *)
(*   commandImproved.py  definitions Imp_...,  SpecImproved and            *)
(*                       SpecCalibration                                   *)
(* Spec is any of the three programs; FairStop is the jog and emergency    *)
(* stop handlers of Command.py and test.py with a main loop that goes on.  *)
(*                                                                         *)
(* The Tk main loop is one thread: a handler runs to completion before the *)
(* next event or timer callback is taken (mainpc = "idle" between them).   *)
(* A handler is cut where a background thread can see it half done: at its *)
(* sleeps and between its writes of current_pw and of the pins.  A         *)
(* background thread is cut between its reads and writes of the shared     *)
(* dictionaries and the pigpio calls.                                      *)
(*                                                                         *)
(* Two joints stand for the six (BASE, the first of SERVO_PINS, and        *)
(* GRIPPER, the last), and the two buttons of BASE for the twelve.  The    *)
(* window, the position labels, test_all_servos, cleanup and the periodic  *)
(* check_servo_connections of test.py are left out.                        *)
(***************************************************************************)
EXTENDS Integers, Sequences, FiniteSets, TLC

VARIABLES
    variant,        \* which program file runs: "Command", "test", "improved"
    current_pw,     \* self.current_pw : joint -> pulse width
    hw,             \* the pulse width last commanded on each joint's pin (0: off)
    button_states,  \* the keys of self.button_states (every stored value is True)
    status,         \* the text of self.servo_status
    mainpc,         \* where the Tk main thread is inside a handler
    jogTimers,      \* pending root.after(DEFAULT_INTERVAL, move_servo_continuously)
    stopTimers,     \* pending root.after(500, ...) posted by emergency_stop
    statusQueue,    \* pending root.after(0, status := ...) posted by threads
    presets,        \* the _move_to_preset_thread threads
    movement_threads, \* test.py: self.movement_threads, keyed by button
    active_servos,  \* test.py: self.active_servos
    jogs,           \* test.py, commandImproved.py: the move_servo_continuously
                    \* threads
    movement_lock,  \* commandImproved.py: the holder of self.movement_lock
    calib,          \* commandImproved.py: the _calibrate_servos_thread thread
    njog,           \* jog steps begun so far (capped by MaxJogSteps)
    nevents,        \* user commands so far: presses, preset and calibration
                    \* requests, emergency stops, releases of buttons that
                    \* are not held (capped by MaxEvents)
    stopped,        \* history: an emergency stop was triggered and no
                    \* reactivate_servos has begun since
    pwAtStop,       \* history: current_pw when the latest emergency stop began
    disabledSince,  \* history: joints written 0 by emergency_stop since the
                    \* latest emergency stop began
    inflight,       \* history: the preset threads that were running when the
                    \* latest emergency stop began
    staleJogs,      \* history: the jog threads that were alive when the latest
                    \* move_to_preset was called
    unheldRelease,  \* history: the last command was a button_release of a
                    \* button that was not held
    monitor,        \* commandImproved.py: the attributes that
                    \* _check_movement_frequency keeps on self
    failed,         \* history: the joints a write to whose pin has raised
    target_pw,      \* devlopingsystem: self.target_pw : joint -> float
    velocities,     \* devlopingsystem: self.velocities : joint -> float
    settings,       \* devlopingsystem: self.settings, its STEP_SIZE
    mouse_servo,    \* enhanceSens.py: self.mouse_servo
    offTimers,      \* enhanceSens.py: pending root.after(500,
                    \* delayed_servo_off), by joint
    loop_at,        \* devlopingsystem: the place in SERVO_PINS of the joint
                    \* the movement loop visits next
    ticks,          \* history: passes of the movement loop so far (capped by
                    \* TickCap)
    config,         \* Command.py: the class attributes SERVO_PINS and
                    \* SERVO_LIMITS the program is started with
    accel,          \* commandImproved.py: a call of _move_with_acceleration,
                    \* its arguments and its local variables
    pi              \* test.py: self.pi.connected, the call of
                    \* connect_to_pigpio in progress and the pending
                    \* check_servo_connections timer

vars == <<variant, current_pw, hw, button_states, status, mainpc,
          jogTimers, stopTimers, statusQueue, presets, movement_threads,
          active_servos, jogs, movement_lock, calib, njog, nevents,
          stopped, pwAtStop, disabledSince, inflight, staleJogs,
          unheldRelease, monitor, failed, target_pw, velocities, settings,
          mouse_servo, offTimers, loop_at, ticks, config, accel, pi>>

(***************************************************************************)
(* Bounds of the model.                                                    *)
(***************************************************************************)
\* user commands in one run: button presses, preset and calibration requests,
\* emergency stops, releases of buttons that are not held
MaxEvents == 2
\* jog steps in one run
MaxJogSteps == 2
\* steps of one preset ramp in Command.py and commandImproved.py; the source
\* ramps in 50 steps (range(50)), the model in RampSteps
RampSteps == 2
\* runs of check_servo_connections that one run of SpecConnect follows
MaxChecks == 2
\* passes of the movement loop that one run of SpecEase follows
MaxTicks == 3
\* the count of passes stops at TickCap
TickCap == 200

(***************************************************************************)
(* Static configuration.  Two of the six joints are modelled, the first   *)
(* and the last of SERVO_PINS, in the dictionary's order.                  *)
(***************************************************************************)
Joints == {"BASE", "GRIPPER"}

JointOrder == <<"BASE", "GRIPPER">>

Dirs == {"CCW", "CW"}

\* a button id is f"{name} {direction}"; the two buttons of the first joint
\* are modelled
Buttons == {<<"BASE", "CCW">>, <<"BASE", "CW">>}

\* the preset threads that can be alive in one run: an earlier and a later one
ThreadIds == {1, 2}

Cmd_SERVO_LIMITS ==
    [j \in Joints |-> IF j = "BASE" THEN <<500, 2500>> ELSE <<1000, 2000>>]

Cmd_SERVO_PINS == [j \in Joints |-> IF j = "BASE" THEN 17 ELSE 24]

\* the configuration as Command.py is written
Cmd_config == [pins |-> Cmd_SERVO_PINS, limits |-> Cmd_SERVO_LIMITS]

Cmd_DEFAULT_STEP == 20

CENTER_PW == 1500

PresetNames == {"home", "pick"}

\* "beyond" is no preset of the programs: it is a vector outside the limits,
\* given to move_to_preset and _move_to_preset_thread as their parameter

Cmd_preset_positions(p) ==
    CASE p = "home"  -> [j \in Joints |-> 1500]
      [] p = "pick"  -> [j \in Joints |-> IF j = "BASE" THEN 1800 ELSE 2000]
      [] p = "beyond" -> [j \in Joints |-> IF j = "BASE" THEN 2600 ELSE 700]

(***************************************************************************)
(* Pure helpers.                                                           *)
(***************************************************************************)
Min(a, b) == IF a <= b THEN a ELSE b

Max(a, b) == IF a >= b THEN a ELSE b

\* max(min_pw, min(new_pw, max_pw))
Clamp(x, lim) == Max(lim[1], Min(x, lim[2]))

(***************************************************************************)
(* Python's float arithmetic of the preset ramp,                           *)
(*     int(current + ((target - current) / n) * k),                        *)
(* as the interpreter computes it.  A float is an IEEE 754 double: 53      *)
(* significant bits, every operation rounded to nearest, ties to even.  A  *)
(* non-negative value is held as <<i, f1, f2, f3, f4>>: its integer part   *)
(* and 64 bits after the point in four digits of 16 bits.  The values of   *)
(* the ramp are either 0 or between 1/128 and 8192, so that 64 bits after  *)
(* the point hold a double exactly, and every product too.                 *)
(***************************************************************************)
Digit == 65536

FracBits == 64

\* the number of bits of a natural number under 2^16
BitLen(x) == Cardinality({e \in 0..15 : 2^e <= x})

\* bit pos (1..FracBits) after the point
FracBit(x, pos) == (x[(pos - 1) \div 16 + 2] \div 2^(15 - ((pos - 1) % 16))) % 2

\* the carries of digits that have grown over 16 bits taken upwards
Carried(x) ==
    LET g4 == x[5]
        g3 == x[4] + g4 \div Digit
        g2 == x[3] + g3 \div Digit
        g1 == x[2] + g2 \div Digit
    IN  <<x[1] + g1 \div Digit, g1 % Digit, g2 % Digit, g3 % Digit, g4 % Digit>>

\* x rounded to 53 significant bits, ties to even; sticky: the exact value has
\* bits below the last bit of x
Round53(x, sticky) ==
    LET first == IF \E l \in 2..5 : x[l] # 0
                 THEN CHOOSE l \in 2..5 : x[l] # 0 /\ \A m \in 2..(l - 1) : x[m] = 0
                 ELSE 0
        \* the bits after the point that are kept
        keep  == IF x[1] > 0 THEN 53 - BitLen(x[1])
                 ELSE 16 * (first - 2) + (16 - BitLen(x[first])) + 53
    IN  IF (x[1] = 0 /\ first = 0) \/ keep >= FracBits THEN x
        ELSE LET guard == FracBit(x, keep + 1)
                 rest  == sticky \/ \E p \in (keep + 2)..FracBits : FracBit(x, p) = 1
                 last  == IF keep = 0 THEN x[1] % 2 ELSE FracBit(x, keep)
                 up    == guard = 1 /\ (rest \/ last = 1)
                 \* the digit that holds bit keep, and the weight of the bit in it
                 at    == IF keep = 0 THEN 1 ELSE (keep - 1) \div 16 + 2
                 ulp   == IF keep = 0 THEN 1 ELSE 2^(16 * (at - 1) - keep)
                 cut   == [l \in 1..5 |->
                              IF l < at THEN x[l]
                              ELSE IF l > at THEN 0
                              ELSE x[l] - (x[l] % ulp)]
             IN  IF up THEN Carried([cut EXCEPT ![at] = @ + ulp]) ELSE cut

\* float(a) / float(n) for naturals a and n > 0, by long division
FloatDiv(a, n) ==
    LET r0 == a % n
        r1 == (r0 * Digit) % n
        r2 == (r1 * Digit) % n
        r3 == (r2 * Digit) % n
        r4 == (r3 * Digit) % n
    IN  Round53(<<a \div n, (r0 * Digit) \div n, (r1 * Digit) \div n,
                  (r2 * Digit) \div n, (r3 * Digit) \div n>>, r4 # 0)

\* x * float(m) for a natural m up to 100
FloatMul(x, m) == Round53(Carried([l \in 1..5 |-> x[l] * m]), FALSE)

\* float(c) + x for a natural c
FloatAdd(c, x) == Round53([x EXCEPT ![1] = @ + c], FALSE)

\* float(c) - x for a natural c > x
FloatSub(c, x) ==
    IF \A l \in 2..5 : x[l] = 0 THEN Round53([x EXCEPT ![1] = c - @], FALSE)
    ELSE Round53(Carried([l \in 1..5 |-> IF l = 1 THEN c - x[1] - 1
                                         ELSE IF l = 5 THEN Digit - x[l]
                                         ELSE Digit - 1 - x[l]]),
                 FALSE)

\* int(cur + ((tgt - cur) / n) * k) as Python computes it; the sign of the
\* increment is kept apart, rounding being symmetric
FloatRamp(cur, tgt, k, n) ==
    IF tgt >= cur
    THEN FloatAdd(cur, FloatMul(FloatDiv(tgt - cur, n), k))[1]
    ELSE FloatSub(cur, FloatMul(FloatDiv(cur - tgt, n), k))[1]

\* int(current + ((target - current) / n) * k) for pulse widths, which are
\* positive: int() truncates, which on a positive value is the floor.  Up to
\* six steps the float result is the exact quotient for every pulse width
\* from 300 to 2700 and is taken directly; beyond six steps it is not (1600
\* to 1000 in 73 steps ends at 999) and the float arithmetic is followed.
RampValue(cur, tgt, k, n) ==
    IF n <= 6 THEN (cur * (n - k) + tgt * k) \div n
    ELSE FloatRamp(cur, tgt, k, n)

\* a jog step without the min and max against the limits
JogTarget_unclamped(cur, dir, step, lim) ==
    IF dir = "CCW" THEN cur + step ELSE cur - step

\* one jog step of move_servo_continuously
JogTarget(cur, dir, step, lim) ==
    IF dir = "CCW" THEN Min(cur + step, lim[2]) ELSE Max(cur - step, lim[1])

IdleMain == [pc |-> "idle", k |-> 0, b |-> <<"-", "-">>, new |-> 0]

NoThread == [st |-> "unborn", target |-> "-", snap |-> [j \in Joints |-> 0],
             step |-> 0, k |-> 0, n |-> 0]

\* the jog threads that can be started in one run
JogIds == {1, 2}

\* no call of _move_with_acceleration followed
NoAccel == [st |-> "none", name |-> "-", target |-> 0, current |-> 0,
            increments |-> <<>>, at |-> 0, pos |-> 0]

\* no call of connect_to_pigpio in progress, self.pi connected, no timer of
\* check_servo_connections followed
NoConnect == [pc |-> "none", attempt |-> 0, made |-> 0, caller |-> "-",
              h |-> TRUE, connected |-> TRUE, timer |-> 0, problems |-> {}]

\* delay: the interval, in ms, of the thread's latest time.sleep at the end of
\* a pass (0: none yet)
NoJog == [st |-> "unborn", b |-> <<"-", "-">>, new |-> 0, delay |-> 0]

NoCalib == [st |-> "unborn", k |-> 0, phase |-> 0, pw |-> 0]

\* __init__ of commandImproved.py sets none of last_movement_time,
\* movement_count and power_stable, and no other method sets them first
NoMonitor == [set |-> FALSE]

\* the same apart from the status line
InitIdle ==
    /\ button_states = {}
    /\ mainpc = IdleMain
    /\ jogTimers = [b \in Buttons |-> 0]
    /\ stopTimers = 0
    /\ statusQueue = 0
    /\ presets = [t \in ThreadIds |-> NoThread]
    /\ movement_threads = [b \in Buttons |-> "absent"]
    /\ jogs = [i \in JogIds |-> NoJog]
    /\ movement_lock = "free"
    /\ calib = NoCalib
    /\ staleJogs = {}
    /\ njog = 0
    /\ nevents = 0
    /\ stopped = FALSE
    /\ pwAtStop = [j \in Joints |-> CENTER_PW]
    /\ disabledSince = {}
    /\ inflight = {}
    /\ unheldRelease = FALSE
    /\ monitor = NoMonitor
    /\ failed = {}
    /\ pi = NoConnect
    /\ config = Cmd_config
    /\ accel = NoAccel

\* the state after construction of what the velocity-eased programs do not have
InitBase ==
    /\ status = "Ready"
    /\ InitIdle

InitRest ==
    /\ InitBase
    /\ active_servos = {}
    /\ target_pw = [j \in Joints |-> CENTER_PW]
    /\ velocities = [j \in Joints |-> 0]
    /\ settings = [STEP_SIZE |-> 0]
    /\ mouse_servo = "None"
    /\ offTimers = [j \in Joints |-> 0]
    /\ loop_at = 1
    /\ ticks = 0

InitCommon ==
    /\ current_pw = [j \in Joints |-> CENTER_PW]
    /\ InitRest

Last == Len(JointOrder)

(***************************************************************************)
(* Command.py                                                              *)
(***************************************************************************)
\* self.pi.set_servo_pulsewidth(self.SERVO_PINS[name], pw): the channel of
\* the pin, which every joint configured to that pin shares
Cmd_set_servo_pulsewidth(name, pw) ==
    [j \in Joints |-> IF config.pins[j] = config.pins[name] THEN pw ELSE hw[j]]

InitCommand ==
    /\ variant = "Command"
    /\ hw = [j \in Joints |-> CENTER_PW]
    /\ InitCommon

\* move_servo_continuously(button_id) up to its write of self.current_pw: the
\* guard on button_states, the read of current_pw, the new pulse width; with
\* nothing to change it schedules the next call at once.  timers: the pending
\* callbacks once the one that runs, if any, is taken off
Cmd_move_servo_continuously(b, held, timers) ==
    IF b \in held
    THEN LET cur == current_pw[b[1]]
             new == JogTarget(cur, b[2], Cmd_DEFAULT_STEP, config.limits[b[1]])
         IN  /\ njog' = njog + 1
             /\ IF new # cur
                THEN /\ mainpc' = [pc |-> "jog_store", k |-> 0, b |-> b, new |-> new]
                     /\ jogTimers' = timers
                ELSE /\ mainpc' = IdleMain
                     /\ jogTimers' = [timers EXCEPT ![b] = @ + 1]
    ELSE /\ mainpc' = IdleMain
         /\ jogTimers' = timers
         /\ njog' = njog

Cmd_button_press(b) ==
    /\ variant = "Command"
    /\ mainpc.pc = "idle"
    /\ nevents < MaxEvents
    /\ njog < MaxJogSteps
    /\ nevents' = nevents + 1
    /\ button_states' = button_states \cup {b}
    /\ status' = "Moving"
    /\ Cmd_move_servo_continuously(b, button_states', jogTimers)
    /\ unheldRelease' = FALSE
    /\ UNCHANGED <<variant, current_pw, hw, stopTimers, statusQueue,
                   presets, movement_threads, active_servos, jogs,
                   movement_lock, calib, stopped, pwAtStop, disabledSince,
                   inflight, staleJogs, monitor, failed, target_pw,
                   velocities, settings, mouse_servo, offTimers, loop_at,
                   ticks, config, accel, pi>>

\* the root.after callback of move_servo_continuously
Cmd_jog_timer(b) ==
    /\ variant = "Command"
    /\ mainpc.pc = "idle"
    /\ jogTimers[b] > 0
    /\ b \in button_states => njog < MaxJogSteps
    /\ Cmd_move_servo_continuously(b, button_states,
                                   [jogTimers EXCEPT ![b] = @ - 1])
    /\ UNCHANGED <<variant, current_pw, hw, button_states, status,
                   stopTimers, statusQueue, presets, movement_threads,
                   active_servos, jogs, movement_lock, calib, nevents,
                   stopped, pwAtStop, disabledSince, inflight, staleJogs,
                   unheldRelease, monitor, failed, target_pw, velocities,
                   settings, mouse_servo, offTimers, loop_at, ticks, config,
                   accel, pi>>

\* self.current_pw[servo_name] = new_pw
Cmd_jog_store ==
    /\ variant = "Command"
    /\ mainpc.pc = "jog_store"
    /\ current_pw' = [current_pw EXCEPT ![mainpc.b[1]] = mainpc.new]
    /\ mainpc' = [mainpc EXCEPT !.pc = "jog_write"]
    /\ UNCHANGED <<variant, hw, button_states, status, jogTimers,
                   stopTimers, statusQueue, presets, movement_threads,
                   active_servos, jogs, movement_lock, calib, njog, nevents,
                   stopped, pwAtStop, disabledSince, inflight, staleJogs,
                   unheldRelease, monitor, failed, target_pw, velocities,
                   settings, mouse_servo, offTimers, loop_at, ticks, config,
                   accel, pi>>

\* self.pi.set_servo_pulsewidth(pin, new_pw), then root.after(DEFAULT_INTERVAL, ...)
Cmd_jog_write ==
    /\ variant = "Command"
    /\ mainpc.pc = "jog_write"
    /\ hw' = Cmd_set_servo_pulsewidth(mainpc.b[1], mainpc.new)
    /\ jogTimers' = [jogTimers EXCEPT ![mainpc.b] = @ + 1]
    /\ mainpc' = IdleMain
    /\ UNCHANGED <<variant, current_pw, button_states, status, stopTimers,
                   statusQueue, presets, movement_threads, active_servos,
                   jogs, movement_lock, calib, njog, nevents, stopped,
                   pwAtStop, disabledSince, inflight, staleJogs,
                   unheldRelease, monitor, failed, target_pw, velocities,
                   settings, mouse_servo, offTimers, loop_at, ticks, config,
                   accel, pi>>

\* button_release without its guard on button_states: the pin is written
\* whether or not the button was held.  C10_UnheldReleaseIsNoOp excludes it.
Release_unguarded(b) ==
    /\ variant = "Command"
    /\ mainpc.pc = "idle"
    /\ button_states' = button_states \ {b}
    /\ hw' = Cmd_set_servo_pulsewidth(b[1], current_pw[b[1]])
    /\ status' = IF button_states' = {} THEN "Ready" ELSE status
    /\ IF b \in button_states
       THEN /\ nevents' = nevents
            /\ unheldRelease' = FALSE
       ELSE /\ nevents < MaxEvents
            /\ nevents' = nevents + 1
            /\ unheldRelease' = TRUE
    /\ UNCHANGED <<variant, current_pw, mainpc, jogTimers, stopTimers,
                   statusQueue, presets, movement_threads, active_servos,
                   jogs, movement_lock, calib, njog, stopped, pwAtStop,
                   disabledSince, inflight, staleJogs, monitor, failed,
                   target_pw, velocities, settings, mouse_servo, offTimers,
                   loop_at, ticks, config, accel, pi>>

Cmd_button_release(b) ==
    /\ variant = "Command"
    /\ mainpc.pc = "idle"
    /\ IF b \in button_states
       THEN /\ button_states' = button_states \ {b}
            /\ hw' = Cmd_set_servo_pulsewidth(b[1], current_pw[b[1]])
            /\ status' = IF button_states' = {} THEN "Ready" ELSE status
            /\ nevents' = nevents
            /\ unheldRelease' = FALSE
       ELSE /\ nevents < MaxEvents
            /\ nevents' = nevents + 1
            /\ UNCHANGED <<button_states, hw, status>>
            /\ unheldRelease' = TRUE
    /\ UNCHANGED <<variant, current_pw, mainpc, jogTimers, stopTimers,
                   statusQueue, presets, movement_threads, active_servos,
                   jogs, movement_lock, calib, njog, stopped, pwAtStop,
                   disabledSince, inflight, staleJogs, monitor, failed,
                   target_pw, velocities, settings, mouse_servo, offTimers,
                   loop_at, ticks, config, accel, pi>>

\* t is the lowest thread not started yet
NextThread(t) ==
    /\ presets[t].st = "unborn"
    /\ \A u \in ThreadIds : u < t => presets[u].st # "unborn"

\* move_to_preset(positions); the thread it starts is t
Cmd_move_to_preset(p, t) ==
    /\ variant = "Command"
    /\ mainpc.pc = "idle"
    /\ nevents < MaxEvents
    /\ nevents' = nevents + 1
    /\ NextThread(t)
    /\ presets' = [presets EXCEPT ![t] = [NoThread EXCEPT !.st = "snap",
                                                          !.target = p]]
    /\ button_states' = {}
    /\ status' = "Moving to preset position..."
    /\ unheldRelease' = FALSE
    /\ UNCHANGED <<variant, current_pw, hw, mainpc, jogTimers, stopTimers,
                   statusQueue, movement_threads, active_servos, jogs,
                   movement_lock, calib, njog, stopped, pwAtStop,
                   disabledSince, inflight, staleJogs, monitor, failed,
                   target_pw, velocities, settings, mouse_servo, offTimers,
                   loop_at, ticks, config, accel, pi>>

\* current_positions = self.current_pw.copy() and the increments, which only
\* depend on the copy and the targets
Cmd_preset_snapshot(t) ==
    /\ variant = "Command"
    /\ presets[t].st = "snap"
    /\ presets' = [presets EXCEPT ![t].st = "store", ![t].snap = current_pw,
                                  ![t].step = 1, ![t].k = 1]
    /\ UNCHANGED <<variant, current_pw, hw, button_states, status, mainpc,
                   jogTimers, stopTimers, statusQueue, movement_threads,
                   active_servos, jogs, movement_lock, calib, njog, nevents,
                   stopped, pwAtStop, disabledSince, inflight, staleJogs,
                   unheldRelease, monitor, failed, target_pw, velocities,
                   settings, mouse_servo, offTimers, loop_at, ticks, config,
                   accel, pi>>

\* the ramp value without max(min_pw, min(new_pw, max_pw))
Cmd_new_pw_unclamped(t) ==
    LET th == presets[t]
        j  == JointOrder[th.k]
    IN  RampValue(th.snap[j], Cmd_preset_positions(th.target)[j],
                  th.step, RampSteps)

\* new_pw of step presets[t].step for joint presets[t].k
Cmd_preset_new_pw(t) ==
    LET th == presets[t]
        j  == JointOrder[th.k]
    IN  Clamp(RampValue(th.snap[j], Cmd_preset_positions(th.target)[j],
                        th.step, RampSteps),
              config.limits[j])

\* self.current_pw[name] = new_pw
Cmd_preset_store(t) ==
    /\ variant = "Command"
    /\ presets[t].st = "store"
    /\ current_pw' = [current_pw EXCEPT ![JointOrder[presets[t].k]] =
                                            Cmd_preset_new_pw(t)]
    /\ presets' = [presets EXCEPT ![t].st = "write"]
    /\ UNCHANGED <<variant, hw, button_states, status, mainpc, jogTimers,
                   stopTimers, statusQueue, movement_threads, active_servos,
                   jogs, movement_lock, calib, njog, nevents, stopped,
                   pwAtStop, disabledSince, inflight, staleJogs,
                   unheldRelease, monitor, failed, target_pw, velocities,
                   settings, mouse_servo, offTimers, loop_at, ticks, config,
                   accel, pi>>

\* the thread's place after the write for joint k of step s: the next joint,
\* the next step after time.sleep(0.02), or the end after n steps
AfterWrite(th, n) ==
    IF th.k < Last THEN [th EXCEPT !.st = "store", !.k = @ + 1]
    ELSE IF th.step < n THEN [th EXCEPT !.st = "store", !.k = 1, !.step = @ + 1]
    ELSE [th EXCEPT !.st = "done"]

\* self.pi.set_servo_pulsewidth(pin, new_pw); after the last one the thread
\* posts root.after(0, status := "Preset position reached")
Cmd_preset_write(t) ==
    /\ variant = "Command"
    /\ presets[t].st = "write"
    /\ hw' = Cmd_set_servo_pulsewidth(JointOrder[presets[t].k],
                                      Cmd_preset_new_pw(t))
    /\ presets' = [presets EXCEPT ![t] = AfterWrite(@, RampSteps)]
    /\ statusQueue' = IF presets'[t].st = "done" THEN statusQueue + 1
                      ELSE statusQueue
    /\ UNCHANGED <<variant, current_pw, button_states, status, mainpc,
                   jogTimers, stopTimers, movement_threads, active_servos,
                   jogs, movement_lock, calib, njog, nevents, stopped,
                   pwAtStop, disabledSince, inflight, staleJogs,
                   unheldRelease, monitor, failed, target_pw, velocities,
                   settings, mouse_servo, offTimers, loop_at, ticks, config,
                   accel, pi>>

\* the callback a finished preset thread posted
Cmd_preset_reached ==
    /\ variant = "Command"
    /\ mainpc.pc = "idle"
    /\ statusQueue > 0
    /\ statusQueue' = statusQueue - 1
    /\ status' = "Preset position reached"
    /\ UNCHANGED <<variant, current_pw, hw, button_states, mainpc,
                   jogTimers, stopTimers, presets, movement_threads,
                   active_servos, jogs, movement_lock, calib, njog, nevents,
                   stopped, pwAtStop, disabledSince, inflight, staleJogs,
                   unheldRelease, monitor, failed, target_pw, velocities,
                   settings, mouse_servo, offTimers, loop_at, ticks, config,
                   accel, pi>>

\* emergency_stop up to its first time.sleep(0.01): the buttons cleared, the
\* status set, the first pin written 0
Cmd_emergency_stop ==
    /\ variant = "Command"
    /\ mainpc.pc = "idle"
    /\ nevents < MaxEvents
    /\ nevents' = nevents + 1
    /\ button_states' = {}
    /\ status' = "EMERGENCY STOP ACTIVATED"
    /\ hw' = Cmd_set_servo_pulsewidth(JointOrder[1], 0)
    /\ mainpc' = [IdleMain EXCEPT !.pc = "estop", !.k = 1]
    /\ stopped' = TRUE
    /\ pwAtStop' = current_pw
    /\ disabledSince' = {JointOrder[1]}
    /\ inflight' = {t \in ThreadIds : presets[t].st \in {"snap", "store", "write"}}
    /\ unheldRelease' = FALSE
    /\ UNCHANGED <<variant, current_pw, jogTimers, stopTimers, statusQueue,
                   presets, movement_threads, active_servos, jogs,
                   movement_lock, calib, njog, staleJogs, monitor, failed,
                   target_pw, velocities, settings, mouse_servo, offTimers,
                   loop_at, ticks, config, accel, pi>>

\* emergency_stop if it scheduled the reactivation after its first sleep and
\* left the other pins alone.  C3_DisableBeforeReactivate excludes it.
Stop_first_pin_only ==
    /\ variant = "Command"
    /\ mainpc.pc = "estop"
    /\ stopTimers' = stopTimers + 1
    /\ mainpc' = IdleMain
    /\ UNCHANGED <<variant, current_pw, hw, button_states, status,
                   jogTimers, statusQueue, presets, movement_threads,
                   active_servos, jogs, movement_lock, calib, njog, nevents,
                   stopped, pwAtStop, disabledSince, inflight, staleJogs,
                   unheldRelease, monitor, failed, target_pw, velocities,
                   settings, mouse_servo, offTimers, loop_at, ticks, config,
                   accel, pi>>

\* emergency_stop after a sleep: the next pin written 0, or, after the last
\* sleep, root.after(500, self.reactivate_servos)
Cmd_emergency_stop_step ==
    /\ variant = "Command"
    /\ mainpc.pc = "estop"
    /\ IF mainpc.k < Last
       THEN /\ hw' = Cmd_set_servo_pulsewidth(JointOrder[mainpc.k + 1], 0)
            /\ disabledSince' = disabledSince \cup {JointOrder[mainpc.k + 1]}
            /\ mainpc' = [mainpc EXCEPT !.k = @ + 1]
            /\ UNCHANGED stopTimers
       ELSE /\ stopTimers' = stopTimers + 1
            /\ mainpc' = IdleMain
            /\ UNCHANGED <<hw, disabledSince>>
    /\ UNCHANGED <<variant, current_pw, button_states, status, jogTimers,
                   statusQueue, presets, movement_threads, active_servos,
                   jogs, movement_lock, calib, njog, nevents, stopped,
                   pwAtStop, inflight, staleJogs, unheldRelease, monitor,
                   failed, target_pw, velocities, settings, mouse_servo,
                   offTimers, loop_at, ticks, config, accel, pi>>

\* reactivate_servos, the callback of root.after(500, ...): its first write
Cmd_reactivate_servos ==
    /\ variant = "Command"
    /\ mainpc.pc = "idle"
    /\ stopTimers > 0
    /\ stopTimers' = stopTimers - 1
    /\ stopped' = FALSE
    /\ hw' = Cmd_set_servo_pulsewidth(JointOrder[1], current_pw[JointOrder[1]])
    /\ mainpc' = [IdleMain EXCEPT !.pc = "react", !.k = 1]
    /\ UNCHANGED <<variant, current_pw, button_states, status, jogTimers,
                   statusQueue, presets, movement_threads, active_servos,
                   jogs, movement_lock, calib, njog, nevents, pwAtStop,
                   disabledSince, inflight, staleJogs, unheldRelease,
                   monitor, failed, target_pw, velocities, settings,
                   mouse_servo, offTimers, loop_at, ticks, config, accel, pi>>

\* reactivate_servos if it stopped after its first write: the other pins stay
\* off and the status is not set.  C6_StopThenReactivation excludes it.
Reactivate_first_pin_only ==
    /\ variant = "Command"
    /\ mainpc.pc = "react"
    /\ mainpc' = IdleMain
    /\ UNCHANGED <<variant, current_pw, hw, button_states, status,
                   jogTimers, stopTimers, statusQueue, presets,
                   movement_threads, active_servos, jogs, movement_lock,
                   calib, njog, nevents, stopped, pwAtStop, disabledSince,
                   inflight, staleJogs, unheldRelease, monitor, failed,
                   target_pw, velocities, settings, mouse_servo, offTimers,
                   loop_at, ticks, config, accel, pi>>

\* reactivate_servos: the next write, or after the last one the status
Cmd_reactivate_step ==
    /\ variant = "Command"
    /\ mainpc.pc = "react"
    /\ IF mainpc.k < Last
       THEN /\ hw' = Cmd_set_servo_pulsewidth(
                        JointOrder[mainpc.k + 1],
                        current_pw[JointOrder[mainpc.k + 1]])
            /\ mainpc' = [mainpc EXCEPT !.k = @ + 1]
            /\ UNCHANGED status
       ELSE /\ status' = "Ready"
            /\ mainpc' = IdleMain
            /\ UNCHANGED hw
    /\ UNCHANGED <<variant, current_pw, button_states, jogTimers,
                   stopTimers, statusQueue, presets, movement_threads,
                   active_servos, jogs, movement_lock, calib, njog, nevents,
                   stopped, pwAtStop, disabledSince, inflight, staleJogs,
                   unheldRelease, monitor, failed, target_pw, velocities,
                   settings, mouse_servo, offTimers, loop_at, ticks, config,
                   accel, pi>>

NextCommand ==
    \/ \E b \in Buttons : Cmd_button_press(b)
    \/ \E b \in Buttons : Cmd_jog_timer(b)
    \/ Cmd_jog_store
    \/ Cmd_jog_write
    \/ \E b \in Buttons : Cmd_button_release(b)
    \/ \E p \in PresetNames : Cmd_move_to_preset(p, 1)
    \/ \E t \in ThreadIds : Cmd_preset_snapshot(t)
    \/ \E t \in ThreadIds : Cmd_preset_store(t)
    \/ \E t \in ThreadIds : Cmd_preset_write(t)
    \/ Cmd_preset_reached
    \/ Cmd_emergency_stop
    \/ Cmd_emergency_stop_step
    \/ Cmd_reactivate_servos
    \/ Cmd_reactivate_step

\* Command.py under any commands, with one preset request in the run
SpecCommand == InitCommand /\ [][NextCommand]_vars

NextCommandPresets ==
    \/ \E p \in PresetNames, t \in ThreadIds : Cmd_move_to_preset(p, t)
    \/ \E t \in ThreadIds : Cmd_preset_snapshot(t)
    \/ \E t \in ThreadIds : Cmd_preset_store(t)
    \/ \E t \in ThreadIds : Cmd_preset_write(t)
    \/ Cmd_preset_reached

\* Command.py under preset requests alone, a later one while the earlier
\* ramp may still run
SpecCommandPresets == InitCommand /\ [][NextCommandPresets]_vars

(***************************************************************************)
(* test.py                                                                 *)
(***************************************************************************)
Test_SERVO_LIMITS ==
    [j \in Joints |-> IF j = "BASE" THEN <<600, 2400>> ELSE <<800, 2200>>]

Test_STEP_SIZES == [j \in Joints |-> IF j = "BASE" THEN 10 ELSE 25]

\* the target vectors move_to_preset is called with: home_position's, and one
\* a few steps from the centre (move_to_preset takes any vector)
TestTargets == {"home", "near"}

\* the vectors of the ramp runs: home_position's, place_position's and one
\* outside the limits
Test_RampTargets == {"home", "place", "beyond"}

Test_preset_positions(p) ==
    CASE p = "home" -> [j \in Joints |-> 1500]
      [] p = "near" -> [j \in Joints |-> IF j = "BASE" THEN 1520 ELSE 1530]
      [] p = "place" -> [j \in Joints |-> IF j = "BASE" THEN 1200 ELSE 1000]
      [] p = "beyond" -> [j \in Joints |-> IF j = "BASE" THEN 2600 ELSE 700]

\* __init__ and initialize_servos: every joint at the middle of its limits,
\* every pin off
InitTest ==
    /\ variant = "test"
    /\ hw = [j \in Joints |-> 0]
    /\ InitCommon

Abs(x) == IF x < 0 THEN -x ELSE x

\* the maximum of a non-empty finite set of integers
MaxOf(S) == CHOOSE x \in S : \A y \in S : y <= x

\* the target after the validation at the top of _move_to_preset_thread
Test_validated(p, j) == Clamp(Test_preset_positions(p)[j], Test_SERVO_LIMITS[j])

\* max_steps without "max_steps = min(max_steps, 100)"
Test_max_steps_uncapped(snap, p) ==
    Max(1, MaxOf({Abs(Test_validated(p, j) - snap[j]) \div 10 : j \in Joints}))

\* max_steps of _move_to_preset_thread: distance // 10 of the farthest joint,
\* at least 1 and at most 100
Test_max_steps(snap, p) ==
    Min(Max(1, MaxOf({Abs(Test_validated(p, j) - snap[j]) \div 10 : j \in Joints})),
        100)

\* stop_all_servos: every pin written 0
AllOff == [j \in Joints |-> 0]

\* i is the lowest jog thread not started yet
NextJog(i) ==
    /\ jogs[i].st = "unborn"
    /\ \A u \in JogIds : u < i => jogs[u].st # "unborn"

\* button_press(button_id); the thread it starts is i
Test_button_press(b, i) ==
    /\ variant = "test"
    /\ mainpc.pc = "idle"
    /\ nevents < MaxEvents
    /\ nevents' = nevents + 1
    /\ NextJog(i)
    /\ button_states' = button_states \cup {b}
    /\ active_servos' = active_servos \cup {b[1]}
    /\ hw' = [hw EXCEPT ![b[1]] = current_pw[b[1]]]
    /\ status' = "Moving"
    /\ movement_threads' = [movement_threads EXCEPT ![b] = "True"]
    /\ jogs' = [jogs EXCEPT ![i] = [NoJog EXCEPT !.st = "loop", !.b = b]]
    /\ unheldRelease' = FALSE
    /\ UNCHANGED <<variant, current_pw, mainpc, jogTimers, stopTimers,
                   statusQueue, presets, movement_lock, calib, njog,
                   stopped, pwAtStop, disabledSince, inflight, staleJogs,
                   monitor, failed, target_pw, velocities, settings,
                   mouse_servo, offTimers, loop_at, ticks, config, accel, pi>>

\* move_servo_continuously: the test of the while loop and, inside it, the
\* read of current_pw and the new pulse width.  An iteration that finds
\* nothing to change only sleeps.
Test_jog_loop(i) ==
    /\ variant = "test"
    /\ jogs[i].st = "loop"
    /\ LET b   == jogs[i].b
           cur == current_pw[b[1]]
           new == JogTarget(cur, b[2], Test_STEP_SIZES[b[1]],
                            Test_SERVO_LIMITS[b[1]])
       IN  IF movement_threads[b] = "True"
           THEN /\ njog < MaxJogSteps
                /\ njog' = njog + 1
                /\ jogs' = IF new # cur
                           THEN [jogs EXCEPT ![i].st = "store", ![i].new = new]
                           ELSE jogs
           ELSE /\ jogs' = [jogs EXCEPT ![i].st = "ended"]
                /\ njog' = njog
    /\ UNCHANGED <<variant, current_pw, hw, button_states, status, mainpc,
                   jogTimers, stopTimers, statusQueue, presets,
                   movement_threads, active_servos, movement_lock, calib,
                   nevents, stopped, pwAtStop, disabledSince, inflight,
                   staleJogs, unheldRelease, monitor, failed, target_pw,
                   velocities, settings, mouse_servo, offTimers, loop_at,
                   ticks, config, accel, pi>>

\* self.current_pw[servo_name] = new_pw
Test_jog_store(i) ==
    /\ variant = "test"
    /\ jogs[i].st = "store"
    /\ current_pw' = [current_pw EXCEPT ![jogs[i].b[1]] = jogs[i].new]
    /\ jogs' = [jogs EXCEPT ![i].st = "write"]
    /\ UNCHANGED <<variant, hw, button_states, status, mainpc, jogTimers,
                   stopTimers, statusQueue, presets, movement_threads,
                   active_servos, movement_lock, calib, njog, nevents,
                   stopped, pwAtStop, disabledSince, inflight, staleJogs,
                   unheldRelease, monitor, failed, target_pw, velocities,
                   settings, mouse_servo, offTimers, loop_at, ticks, config,
                   accel, pi>>

\* self.pi.set_servo_pulsewidth(pin, new_pw), then the sleep
Test_jog_write(i) ==
    /\ variant = "test"
    /\ jogs[i].st = "write"
    /\ hw' = [hw EXCEPT ![jogs[i].b[1]] = jogs[i].new]
    /\ jogs' = [jogs EXCEPT ![i].st = "loop"]
    /\ UNCHANGED <<variant, current_pw, button_states, status, mainpc,
                   jogTimers, stopTimers, statusQueue, presets,
                   movement_threads, active_servos, movement_lock, calib,
                   njog, nevents, stopped, pwAtStop, disabledSince,
                   inflight, staleJogs, unheldRelease, monitor, failed,
                   target_pw, velocities, settings, mouse_servo, offTimers,
                   loop_at, ticks, config, accel, pi>>

\* button_release(button_id).  self.active_servos.remove raises KeyError when
\* the servo is not in the set, which ends the handler before the status
Test_button_release(b) ==
    /\ variant = "test"
    /\ mainpc.pc = "idle"
    /\ IF b \in button_states
       THEN /\ button_states' = button_states \ {b}
            /\ movement_threads' =
                   IF movement_threads[b] = "absent" THEN movement_threads
                   ELSE [movement_threads EXCEPT ![b] = "False"]
            /\ IF \E a \in button_states' : a[1] = b[1]
               THEN /\ UNCHANGED <<hw, active_servos>>
                    /\ status' = IF button_states' = {}
                                 THEN "Ready - All servos off" ELSE status
               ELSE /\ hw' = [hw EXCEPT ![b[1]] = 0]
                    /\ active_servos' = active_servos \ {b[1]}
                    /\ status' = IF b[1] \in active_servos /\ button_states' = {}
                                 THEN "Ready - All servos off" ELSE status
            /\ nevents' = nevents
            /\ unheldRelease' = FALSE
       ELSE /\ nevents < MaxEvents
            /\ nevents' = nevents + 1
            /\ UNCHANGED <<button_states, movement_threads, hw, active_servos,
                           status>>
            /\ unheldRelease' = TRUE
    /\ UNCHANGED <<variant, current_pw, mainpc, jogTimers, stopTimers,
                   statusQueue, presets, jogs, movement_lock, calib, njog,
                   stopped, pwAtStop, disabledSince, inflight, staleJogs,
                   monitor, failed, target_pw, velocities, settings,
                   mouse_servo, offTimers, loop_at, ticks, config, accel, pi>>

\* move_to_preset(positions), with its stop_all_servos; the thread it starts
\* is t
Test_move_to_preset(p, t) ==
    /\ variant = "test"
    /\ mainpc.pc = "idle"
    /\ nevents < MaxEvents
    /\ nevents' = nevents + 1
    /\ NextThread(t)
    /\ button_states' = {}
    /\ hw' = AllOff
    /\ active_servos' = {}
    /\ status' = "Moving to preset position..."
    /\ presets' = [presets EXCEPT ![t] = [NoThread EXCEPT !.st = "on",
                                                          !.target = p,
                                                          !.k = 1]]
    /\ staleJogs' = {i \in JogIds : jogs[i].st \in {"loop", "store", "write"}}
    /\ unheldRelease' = FALSE
    /\ UNCHANGED <<variant, current_pw, mainpc, jogTimers, stopTimers,
                   statusQueue, movement_threads, jogs, movement_lock,
                   calib, njog, stopped, pwAtStop, disabledSince, inflight,
                   monitor, failed, target_pw, velocities, settings,
                   mouse_servo, offTimers, loop_at, ticks, config, accel, pi>>

\* "Turn on all servos that need to move": one pin per step, a sleep after each
Test_preset_on(t) ==
    /\ variant = "test"
    /\ presets[t].st = "on"
    /\ hw' = [hw EXCEPT ![JointOrder[presets[t].k]] =
                            current_pw[JointOrder[presets[t].k]]]
    /\ presets' = [presets EXCEPT ![t] =
                       IF @.k < Last THEN [@ EXCEPT !.k = @ + 1]
                       ELSE [@ EXCEPT !.st = "snap"]]
    /\ UNCHANGED <<variant, current_pw, button_states, status, mainpc,
                   jogTimers, stopTimers, statusQueue, movement_threads,
                   active_servos, jogs, movement_lock, calib, njog, nevents,
                   stopped, pwAtStop, disabledSince, inflight, staleJogs,
                   unheldRelease, monitor, failed, target_pw, velocities,
                   settings, mouse_servo, offTimers, loop_at, ticks, config,
                   accel, pi>>

\* current_positions = self.current_pw.copy(), max_steps and the increments
Test_preset_snapshot(t) ==
    /\ variant = "test"
    /\ presets[t].st = "snap"
    /\ presets' = [presets EXCEPT ![t].st = "store", ![t].snap = current_pw,
                                  ![t].step = 1, ![t].k = 1,
                                  ![t].n = Test_max_steps(current_pw,
                                                          presets[t].target)]
    /\ UNCHANGED <<variant, current_pw, hw, button_states, status, mainpc,
                   jogTimers, stopTimers, statusQueue, movement_threads,
                   active_servos, jogs, movement_lock, calib, njog, nevents,
                   stopped, pwAtStop, disabledSince, inflight, staleJogs,
                   unheldRelease, monitor, failed, target_pw, velocities,
                   settings, mouse_servo, offTimers, loop_at, ticks, config,
                   accel, pi>>

\* new_pw of step presets[t].step for joint presets[t].k
Test_preset_new_pw(t) ==
    LET th == presets[t]
        j  == JointOrder[th.k]
    IN  Clamp(RampValue(th.snap[j], Test_validated(th.target, j), th.step, th.n),
              Test_SERVO_LIMITS[j])

\* self.current_pw[name] = new_pw
Test_preset_store(t) ==
    /\ variant = "test"
    /\ presets[t].st = "store"
    /\ current_pw' = [current_pw EXCEPT ![JointOrder[presets[t].k]] =
                                            Test_preset_new_pw(t)]
    /\ presets' = [presets EXCEPT ![t].st = "write"]
    /\ UNCHANGED <<variant, hw, button_states, status, mainpc, jogTimers,
                   stopTimers, statusQueue, movement_threads, active_servos,
                   jogs, movement_lock, calib, njog, nevents, stopped,
                   pwAtStop, disabledSince, inflight, staleJogs,
                   unheldRelease, monitor, failed, target_pw, velocities,
                   settings, mouse_servo, offTimers, loop_at, ticks, config,
                   accel, pi>>

\* self.pi.set_servo_pulsewidth(pin, new_pw); after the last step the thread
\* holds for 0.5 s
Test_preset_write(t) ==
    /\ variant = "test"
    /\ presets[t].st = "write"
    /\ hw' = [hw EXCEPT ![JointOrder[presets[t].k]] = Test_preset_new_pw(t)]
    /\ presets' = [presets EXCEPT ![t] =
                       LET a == AfterWrite(@, @.n)
                       IN  IF a.st = "done" THEN [a EXCEPT !.st = "off"] ELSE a]
    /\ UNCHANGED <<variant, current_pw, button_states, status, mainpc,
                   jogTimers, stopTimers, statusQueue, movement_threads,
                   active_servos, jogs, movement_lock, calib, njog, nevents,
                   stopped, pwAtStop, disabledSince, inflight, staleJogs,
                   unheldRelease, monitor, failed, target_pw, velocities,
                   settings, mouse_servo, offTimers, loop_at, ticks, config,
                   accel, pi>>

\* the end of _move_to_preset_thread: stop_all_servos and the status posted
Test_preset_off(t) ==
    /\ variant = "test"
    /\ presets[t].st = "off"
    /\ hw' = AllOff
    /\ active_servos' = {}
    /\ statusQueue' = statusQueue + 1
    /\ presets' = [presets EXCEPT ![t].st = "done"]
    /\ UNCHANGED <<variant, current_pw, button_states, status, mainpc,
                   jogTimers, stopTimers, movement_threads, jogs,
                   movement_lock, calib, njog, nevents, stopped, pwAtStop,
                   disabledSince, inflight, staleJogs, unheldRelease,
                   monitor, failed, target_pw, velocities, settings,
                   mouse_servo, offTimers, loop_at, ticks, config, accel, pi>>

\* the callback a finished preset thread posted
Test_preset_reached ==
    /\ variant = "test"
    /\ mainpc.pc = "idle"
    /\ statusQueue > 0
    /\ statusQueue' = statusQueue - 1
    /\ status' = "Preset position reached - All servos off"
    /\ UNCHANGED <<variant, current_pw, hw, button_states, mainpc,
                   jogTimers, stopTimers, presets, movement_threads,
                   active_servos, jogs, movement_lock, calib, njog, nevents,
                   stopped, pwAtStop, disabledSince, inflight, staleJogs,
                   unheldRelease, monitor, failed, target_pw, velocities,
                   settings, mouse_servo, offTimers, loop_at, ticks, config,
                   accel, pi>>

\* emergency_stop: no sleep in it, and no reactivation after it
Test_emergency_stop ==
    /\ variant = "test"
    /\ mainpc.pc = "idle"
    /\ nevents < MaxEvents
    /\ nevents' = nevents + 1
    /\ button_states' = {}
    /\ movement_threads' = [b \in Buttons |-> "absent"]
    /\ status' = "EMERGENCY STOP ACTIVATED"
    /\ hw' = AllOff
    /\ active_servos' = {}
    /\ stopTimers' = stopTimers + 1
    /\ stopped' = TRUE
    /\ pwAtStop' = current_pw
    /\ disabledSince' = Joints
    /\ inflight' = {t \in ThreadIds :
                       presets[t].st \in {"on", "snap", "store", "write", "off"}}
    /\ unheldRelease' = FALSE
    /\ UNCHANGED <<variant, current_pw, mainpc, jogTimers, statusQueue,
                   presets, jogs, movement_lock, calib, njog, staleJogs,
                   monitor, failed, target_pw, velocities, settings,
                   mouse_servo, offTimers, loop_at, ticks, config, accel, pi>>

\* the callback of root.after(500, ...) in emergency_stop
Test_stop_ready ==
    /\ variant = "test"
    /\ mainpc.pc = "idle"
    /\ stopTimers > 0
    /\ stopTimers' = stopTimers - 1
    /\ status' = "Ready - All servos off"
    /\ UNCHANGED <<variant, current_pw, hw, button_states, mainpc,
                   jogTimers, statusQueue, presets, movement_threads,
                   active_servos, jogs, movement_lock, calib, njog, nevents,
                   stopped, pwAtStop, disabledSince, inflight, staleJogs,
                   unheldRelease, monitor, failed, target_pw, velocities,
                   settings, mouse_servo, offTimers, loop_at, ticks, config,
                   accel, pi>>

NextTest ==
    \/ \E b \in Buttons, i \in JogIds : Test_button_press(b, i)
    \/ \E i \in JogIds : Test_jog_loop(i)
    \/ \E i \in JogIds : Test_jog_store(i)
    \/ \E i \in JogIds : Test_jog_write(i)
    \/ \E b \in Buttons : Test_button_release(b)
    \/ \E p \in TestTargets : Test_move_to_preset(p, 1)
    \/ \E t \in ThreadIds : Test_preset_on(t)
    \/ \E t \in ThreadIds : Test_preset_snapshot(t)
    \/ \E t \in ThreadIds : Test_preset_store(t)
    \/ \E t \in ThreadIds : Test_preset_write(t)
    \/ \E t \in ThreadIds : Test_preset_off(t)
    \/ Test_preset_reached
    \/ Test_emergency_stop
    \/ Test_stop_ready

\* test.py under any commands, with one preset request in the run
SpecTest == InitTest /\ [][NextTest]_vars

(***************************************************************************)
(* commandImproved.py                                                      *)
(***************************************************************************)
Imp_SERVO_LIMITS ==
    [j \in Joints |-> IF j = "BASE" THEN <<600, 2400>> ELSE <<1000, 2000>>]

Imp_DEFAULT_STEP == 10

\* the step of a jog thread's first pass of its loop: DEFAULT_STEP // 2, then
\* one more because it is under DEFAULT_STEP
Imp_current_step == (Imp_DEFAULT_STEP \div 2) + 1

InitImproved ==
    /\ variant = "improved"
    /\ hw = [j \in Joints |-> CENTER_PW]
    /\ InitCommon

\* button_press(button_id); the thread it starts is i
Imp_button_press(b, i) ==
    /\ variant = "improved"
    /\ mainpc.pc = "idle"
    /\ nevents < MaxEvents
    /\ nevents' = nevents + 1
    /\ NextJog(i)
    /\ button_states' = button_states \cup {b}
    /\ status' = "Moving"
    /\ jogs' = [jogs EXCEPT ![i] = [NoJog EXCEPT !.st = "start", !.b = b]]
    /\ unheldRelease' = FALSE
    /\ UNCHANGED <<variant, current_pw, hw, mainpc, jogTimers, stopTimers,
                   statusQueue, presets, movement_threads, active_servos,
                   movement_lock, calib, njog, stopped, pwAtStop,
                   disabledSince, inflight, staleJogs, monitor, failed,
                   target_pw, velocities, settings, mouse_servo, offTimers,
                   loop_at, ticks, config, accel, pi>>

\* move_servo_continuously after its sleep(0.05): "Skip if button already
\* released"
Imp_jog_start(i) ==
    /\ variant = "improved"
    /\ jogs[i].st = "start"
    /\ jogs' = [jogs EXCEPT ![i].st = IF jogs[i].b \in button_states
                                      THEN "lock" ELSE "ended"]
    /\ UNCHANGED <<variant, current_pw, hw, button_states, status, mainpc,
                   jogTimers, stopTimers, statusQueue, presets,
                   movement_threads, active_servos, movement_lock, calib,
                   njog, nevents, stopped, pwAtStop, disabledSince,
                   inflight, staleJogs, unheldRelease, monitor, failed,
                   target_pw, velocities, settings, mouse_servo, offTimers,
                   loop_at, ticks, config, accel, pi>>

\* move_servo_continuously entering its loop without "with self.movement_lock"
Imp_jog_acquire_unlocked(i) ==
    /\ variant = "improved"
    /\ jogs[i].st = "lock"
    /\ movement_lock' = "jog"
    /\ jogs' = [jogs EXCEPT ![i].st = "loop"]
    /\ UNCHANGED <<variant, current_pw, hw, button_states, status, mainpc,
                   jogTimers, stopTimers, statusQueue, presets,
                   movement_threads, active_servos, calib, njog, nevents,
                   stopped, pwAtStop, disabledSince, inflight, staleJogs,
                   unheldRelease, monitor, failed, target_pw, velocities,
                   settings, mouse_servo, offTimers, loop_at, ticks, config,
                   accel, pi>>

\* with self.movement_lock
Imp_jog_acquire(i) ==
    /\ variant = "improved"
    /\ jogs[i].st = "lock"
    /\ movement_lock = "free"
    /\ movement_lock' = "jog"
    /\ jogs' = [jogs EXCEPT ![i].st = "loop"]
    /\ UNCHANGED <<variant, current_pw, hw, button_states, status, mainpc,
                   jogTimers, stopTimers, statusQueue, presets,
                   movement_threads, active_servos, calib, njog, nevents,
                   stopped, pwAtStop, disabledSince, inflight, staleJogs,
                   unheldRelease, monitor, failed, target_pw, velocities,
                   settings, mouse_servo, offTimers, loop_at, ticks, config,
                   accel, pi>>

\* the test of the while loop and the new pulse width.  With nothing to
\* change, the read of self.power_stable, an attribute __init__ never sets,
\* raises AttributeError: the thread ends and the lock is released.
Imp_jog_loop(i) ==
    /\ variant = "improved"
    /\ jogs[i].st = "loop"
    /\ LET b   == jogs[i].b
           cur == current_pw[b[1]]
           new == JogTarget(cur, b[2], Imp_current_step, Imp_SERVO_LIMITS[b[1]])
       IN  IF b \in button_states /\ new # cur
           THEN /\ njog < MaxJogSteps
                /\ njog' = njog + 1
                /\ jogs' = [jogs EXCEPT ![i].st = "store", ![i].new = new]
                /\ UNCHANGED movement_lock
           ELSE /\ jogs' = [jogs EXCEPT ![i].st = "ended"]
                /\ movement_lock' = "free"
                /\ njog' = njog
    /\ UNCHANGED <<variant, current_pw, hw, button_states, status, mainpc,
                   jogTimers, stopTimers, statusQueue, presets,
                   movement_threads, active_servos, calib, nevents, stopped,
                   pwAtStop, disabledSince, inflight, staleJogs,
                   unheldRelease, monitor, failed, target_pw, velocities,
                   settings, mouse_servo, offTimers, loop_at, ticks, config,
                   accel, pi>>

\* self.current_pw[servo_name] = new_pw
Imp_jog_store(i) ==
    /\ variant = "improved"
    /\ jogs[i].st = "store"
    /\ current_pw' = [current_pw EXCEPT ![jogs[i].b[1]] = jogs[i].new]
    /\ jogs' = [jogs EXCEPT ![i].st = "write"]
    /\ UNCHANGED <<variant, hw, button_states, status, mainpc, jogTimers,
                   stopTimers, statusQueue, presets, movement_threads,
                   active_servos, movement_lock, calib, njog, nevents,
                   stopped, pwAtStop, disabledSince, inflight, staleJogs,
                   unheldRelease, monitor, failed, target_pw, velocities,
                   settings, mouse_servo, offTimers, loop_at, ticks, config,
                   accel, pi>>

\* _check_movement_frequency on attributes that are set; rapid: time_diff < 0.1
Imp_check_movement_frequency(m, rapid) ==
    IF rapid
    THEN [m EXCEPT !.movement_count = @ + 1,
                   !.power_stable = IF m.movement_count + 1 > 20 THEN FALSE ELSE @]
    ELSE [m EXCEPT !.movement_count = 0]

Imp_DEFAULT_INTERVAL == 30

\* interval = self.DEFAULT_INTERVAL * (1.5 if not self.power_stable else 1.0)
Imp_interval(m) ==
    IF m.power_stable THEN Imp_DEFAULT_INTERVAL ELSE (Imp_DEFAULT_INTERVAL * 3) \div 2

\* self.pi.set_servo_pulsewidth(pin, new_pw), then _check_movement_frequency:
\* its read of self.last_movement_time raises AttributeError when the attribute
\* is not set, which ends the thread and frees the lock; else the thread
\* computes its interval, sleeps and goes on with its loop
Imp_jog_write(i) ==
    /\ variant = "improved"
    /\ jogs[i].st = "write"
    /\ hw' = [hw EXCEPT ![jogs[i].b[1]] = jogs[i].new]
    /\ IF ~monitor.set
       THEN /\ jogs' = [jogs EXCEPT ![i].st = "ended"]
            /\ movement_lock' = "free"
            /\ UNCHANGED monitor
       ELSE /\ \E rapid \in BOOLEAN :
                   monitor' = Imp_check_movement_frequency(monitor, rapid)
            /\ jogs' = [jogs EXCEPT ![i].st = "loop",
                                    ![i].delay = Imp_interval(monitor')]
            /\ UNCHANGED movement_lock
    /\ UNCHANGED <<variant, current_pw, button_states, status, mainpc,
                   jogTimers, stopTimers, statusQueue, presets,
                   movement_threads, active_servos, calib, njog, nevents,
                   stopped, pwAtStop, disabledSince, inflight, staleJogs,
                   unheldRelease, failed, target_pw, velocities, settings,
                   mouse_servo, offTimers, loop_at, ticks, config, accel, pi>>

Imp_button_release(b) ==
    /\ variant = "improved"
    /\ mainpc.pc = "idle"
    /\ IF b \in button_states
       THEN /\ button_states' = button_states \ {b}
            /\ hw' = [hw EXCEPT ![b[1]] = current_pw[b[1]]]
            /\ status' = IF button_states' = {} THEN "Ready" ELSE status
            /\ nevents' = nevents
            /\ unheldRelease' = FALSE
       ELSE /\ nevents < MaxEvents
            /\ nevents' = nevents + 1
            /\ UNCHANGED <<button_states, hw, status>>
            /\ unheldRelease' = TRUE
    /\ UNCHANGED <<variant, current_pw, mainpc, jogTimers, stopTimers,
                   statusQueue, presets, movement_threads, active_servos,
                   jogs, movement_lock, calib, njog, stopped, pwAtStop,
                   disabledSince, inflight, staleJogs, monitor, failed,
                   target_pw, velocities, settings, mouse_servo, offTimers,
                   loop_at, ticks, config, accel, pi>>

\* move_to_preset(positions, preset_name); the thread it starts is t
Imp_move_to_preset(p, t) ==
    /\ variant = "improved"
    /\ mainpc.pc = "idle"
    /\ nevents < MaxEvents
    /\ nevents' = nevents + 1
    /\ NextThread(t)
    /\ presets' = [presets EXCEPT ![t] = [NoThread EXCEPT !.st = "lock",
                                                          !.target = p]]
    /\ button_states' = {}
    /\ status' = "Moving to preset position..."
    /\ unheldRelease' = FALSE
    /\ UNCHANGED <<variant, current_pw, hw, mainpc, jogTimers, stopTimers,
                   statusQueue, movement_threads, active_servos, jogs,
                   movement_lock, calib, njog, stopped, pwAtStop,
                   disabledSince, inflight, staleJogs, monitor, failed,
                   target_pw, velocities, settings, mouse_servo, offTimers,
                   loop_at, ticks, config, accel, pi>>

\* with self.movement_lock
Imp_preset_acquire(t) ==
    /\ variant = "improved"
    /\ presets[t].st = "lock"
    /\ movement_lock = "free"
    /\ movement_lock' = "preset"
    /\ presets' = [presets EXCEPT ![t].st = "snap"]
    /\ UNCHANGED <<variant, current_pw, hw, button_states, status, mainpc,
                   jogTimers, stopTimers, statusQueue, movement_threads,
                   active_servos, jogs, calib, njog, nevents, stopped,
                   pwAtStop, disabledSince, inflight, staleJogs,
                   unheldRelease, monitor, failed, target_pw, velocities,
                   settings, mouse_servo, offTimers, loop_at, ticks, config,
                   accel, pi>>

\* current_positions = self.current_pw.copy() and the increments
Imp_preset_snapshot(t) ==
    /\ variant = "improved"
    /\ presets[t].st = "snap"
    /\ presets' = [presets EXCEPT ![t].st = "store", ![t].snap = current_pw,
                                  ![t].step = 1, ![t].k = 1]
    /\ UNCHANGED <<variant, current_pw, hw, button_states, status, mainpc,
                   jogTimers, stopTimers, statusQueue, movement_threads,
                   active_servos, jogs, movement_lock, calib, njog, nevents,
                   stopped, pwAtStop, disabledSince, inflight, staleJogs,
                   unheldRelease, monitor, failed, target_pw, velocities,
                   settings, mouse_servo, offTimers, loop_at, ticks, config,
                   accel, pi>>

\* new_pw of step presets[t].step for joint presets[t].k
Imp_preset_new_pw(t) ==
    LET th == presets[t]
        j  == JointOrder[th.k]
    IN  Clamp(RampValue(th.snap[j], Cmd_preset_positions(th.target)[j],
                        th.step, RampSteps),
              Imp_SERVO_LIMITS[j])

\* self.current_pw[name] = new_pw
Imp_preset_store(t) ==
    /\ variant = "improved"
    /\ presets[t].st = "store"
    /\ current_pw' = [current_pw EXCEPT ![JointOrder[presets[t].k]] =
                                            Imp_preset_new_pw(t)]
    /\ presets' = [presets EXCEPT ![t].st = "write"]
    /\ UNCHANGED <<variant, hw, button_states, status, mainpc, jogTimers,
                   stopTimers, statusQueue, movement_threads, active_servos,
                   jogs, movement_lock, calib, njog, nevents, stopped,
                   pwAtStop, disabledSince, inflight, staleJogs,
                   unheldRelease, monitor, failed, target_pw, velocities,
                   settings, mouse_servo, offTimers, loop_at, ticks, config,
                   accel, pi>>

\* self.pi.set_servo_pulsewidth(pin, new_pw) and the sleep; after the last
\* one the status is posted and the lock released
Imp_preset_write(t) ==
    /\ variant = "improved"
    /\ presets[t].st = "write"
    /\ hw' = [hw EXCEPT ![JointOrder[presets[t].k]] = Imp_preset_new_pw(t)]
    /\ presets' = [presets EXCEPT ![t] = AfterWrite(@, RampSteps)]
    /\ statusQueue' = IF presets'[t].st = "done" THEN statusQueue + 1
                      ELSE statusQueue
    /\ movement_lock' = IF presets'[t].st = "done" THEN "free" ELSE movement_lock
    /\ UNCHANGED <<variant, current_pw, button_states, status, mainpc,
                   jogTimers, stopTimers, movement_threads, active_servos,
                   jogs, calib, njog, nevents, stopped, pwAtStop,
                   disabledSince, inflight, staleJogs, unheldRelease,
                   monitor, failed, target_pw, velocities, settings,
                   mouse_servo, offTimers, loop_at, ticks, config, accel, pi>>

\* a status callback posted by a thread: "... position reached",
\* "Calibration complete" or "Calibration error: ..."
Imp_thread_status ==
    /\ variant = "improved"
    /\ mainpc.pc = "idle"
    /\ statusQueue > 0
    /\ statusQueue' = statusQueue - 1
    /\ status' = "thread ended"
    /\ UNCHANGED <<variant, current_pw, hw, button_states, mainpc,
                   jogTimers, stopTimers, presets, movement_threads,
                   active_servos, jogs, movement_lock, calib, njog, nevents,
                   stopped, pwAtStop, disabledSince, inflight, staleJogs,
                   unheldRelease, monitor, failed, target_pw, velocities,
                   settings, mouse_servo, offTimers, loop_at, ticks, config,
                   accel, pi>>

\* emergency_stop up to its first time.sleep(0.05)
Imp_emergency_stop ==
    /\ variant = "improved"
    /\ mainpc.pc = "idle"
    /\ nevents < MaxEvents
    /\ nevents' = nevents + 1
    /\ button_states' = {}
    /\ status' = "EMERGENCY STOP ACTIVATED"
    /\ hw' = [hw EXCEPT ![JointOrder[1]] = 0]
    /\ mainpc' = [IdleMain EXCEPT !.pc = "estop", !.k = 1]
    /\ stopped' = TRUE
    /\ pwAtStop' = current_pw
    /\ disabledSince' = {JointOrder[1]}
    /\ inflight' = {t \in ThreadIds : presets[t].st \in {"lock", "snap", "store", "write"}}
    /\ unheldRelease' = FALSE
    /\ UNCHANGED <<variant, current_pw, jogTimers, stopTimers, statusQueue,
                   presets, movement_threads, active_servos, jogs,
                   movement_lock, calib, njog, staleJogs, monitor, failed,
                   target_pw, velocities, settings, mouse_servo, offTimers,
                   loop_at, ticks, config, accel, pi>>

\* emergency_stop after a sleep: the next pin written 0, or, after the last
\* sleep, root.after(1000, self.reactivate_servos)
Imp_emergency_stop_step ==
    /\ variant = "improved"
    /\ mainpc.pc = "estop"
    /\ IF mainpc.k < Last
       THEN /\ hw' = [hw EXCEPT ![JointOrder[mainpc.k + 1]] = 0]
            /\ disabledSince' = disabledSince \cup {JointOrder[mainpc.k + 1]}
            /\ mainpc' = [mainpc EXCEPT !.k = @ + 1]
            /\ UNCHANGED stopTimers
       ELSE /\ stopTimers' = stopTimers + 1
            /\ mainpc' = IdleMain
            /\ UNCHANGED <<hw, disabledSince>>
    /\ UNCHANGED <<variant, current_pw, button_states, status, jogTimers,
                   statusQueue, presets, movement_threads, active_servos,
                   jogs, movement_lock, calib, njog, nevents, stopped,
                   pwAtStop, inflight, staleJogs, unheldRelease, monitor,
                   failed, target_pw, velocities, settings, mouse_servo,
                   offTimers, loop_at, ticks, config, accel, pi>>

\* reactivate_servos, the callback of root.after(1000, ...), up to its first
\* time.sleep(0.2)
Imp_reactivate_servos ==
    /\ variant = "improved"
    /\ mainpc.pc = "idle"
    /\ stopTimers > 0
    /\ stopTimers' = stopTimers - 1
    /\ stopped' = FALSE
    /\ hw' = [hw EXCEPT ![JointOrder[1]] = current_pw[JointOrder[1]]]
    /\ mainpc' = [IdleMain EXCEPT !.pc = "react", !.k = 1]
    /\ UNCHANGED <<variant, current_pw, button_states, status, jogTimers,
                   statusQueue, presets, movement_threads, active_servos,
                   jogs, movement_lock, calib, njog, nevents, pwAtStop,
                   disabledSince, inflight, staleJogs, unheldRelease,
                   monitor, failed, target_pw, velocities, settings,
                   mouse_servo, offTimers, loop_at, ticks, config, accel, pi>>

\* reactivate_servos after a sleep: the next write, or the status
Imp_reactivate_step ==
    /\ variant = "improved"
    /\ mainpc.pc = "react"
    /\ IF mainpc.k < Last
       THEN /\ hw' = [hw EXCEPT ![JointOrder[mainpc.k + 1]] =
                                     current_pw[JointOrder[mainpc.k + 1]]]
            /\ mainpc' = [mainpc EXCEPT !.k = @ + 1]
            /\ UNCHANGED status
       ELSE /\ status' = "Ready"
            /\ mainpc' = IdleMain
            /\ UNCHANGED hw
    /\ UNCHANGED <<variant, current_pw, button_states, jogTimers,
                   stopTimers, statusQueue, presets, movement_threads,
                   active_servos, jogs, movement_lock, calib, njog, nevents,
                   stopped, pwAtStop, disabledSince, inflight, staleJogs,
                   unheldRelease, monitor, failed, target_pw, velocities,
                   settings, mouse_servo, offTimers, loop_at, ticks, config,
                   accel, pi>>

\* calibrate_servos; one calibration thread in a run
Imp_calibrate_servos ==
    /\ variant = "improved"
    /\ mainpc.pc = "idle"
    /\ nevents < MaxEvents
    /\ nevents' = nevents + 1
    /\ calib.st = "unborn"
    /\ status' = "Starting servo calibration..."
    /\ button_states' = {}
    /\ calib' = [st |-> "move", k |-> 1, phase |-> 1, pw |-> 0]
    /\ unheldRelease' = FALSE
    /\ UNCHANGED <<variant, current_pw, hw, mainpc, jogTimers, stopTimers,
                   statusQueue, presets, movement_threads, active_servos,
                   jogs, movement_lock, njog, stopped, pwAtStop,
                   disabledSince, inflight, staleJogs, monitor, failed,
                   target_pw, velocities, settings, mouse_servo, offTimers,
                   loop_at, ticks, config, accel, pi>>

\* center of _calibrate_servos_thread
Imp_center(j) == (Imp_SERVO_LIMITS[j][1] + Imp_SERVO_LIMITS[j][2]) \div 2

\* the thread's place after the move to the centre that ends phase ph
\* (1: before the lower sweep, 2: before the upper sweep, 3: the next joint)
CalibAfterMove(c) ==
    IF c.phase < 3
    THEN [c EXCEPT !.st = "sweep_write", !.phase = @ + 1,
                   !.pw = Imp_center(JointOrder[c.k])]
    ELSE IF c.k < Last
    THEN [c EXCEPT !.st = "move", !.k = @ + 1, !.phase = 1]
    ELSE [c EXCEPT !.st = "ended"]

\* _move_with_acceleration(name, center) at its read of current_pw: it returns
\* when the joint is at the centre; else its first increment is one towards
\* the centre, clamped
Imp_calib_move(c) ==
    LET j   == JointOrder[c.k]
        cur == current_pw[j]
    IN  IF cur = Imp_center(j)
        THEN CalibAfterMove(c)
        ELSE [c EXCEPT !.st = "move_write",
                       !.pw = Clamp(IF Imp_center(j) > cur THEN cur + 1
                                    ELSE cur - 1, Imp_SERVO_LIMITS[j])]

Imp_calib_move_read ==
    /\ variant = "improved"
    /\ calib.st = "move"
    /\ calib' = Imp_calib_move(calib)
    /\ statusQueue' = IF calib'.st = "ended" THEN statusQueue + 1
                      ELSE statusQueue
    /\ UNCHANGED <<variant, current_pw, hw, button_states, status, mainpc,
                   jogTimers, stopTimers, presets, movement_threads,
                   active_servos, jogs, movement_lock, njog, nevents,
                   stopped, pwAtStop, disabledSince, inflight, staleJogs,
                   unheldRelease, monitor, failed, target_pw, velocities,
                   settings, mouse_servo, offTimers, loop_at, ticks, config,
                   accel, pi>>

\* _move_with_acceleration: self.pi.set_servo_pulsewidth(pin, current_pos)
Imp_calib_move_write ==
    /\ variant = "improved"
    /\ calib.st = "move_write"
    /\ hw' = [hw EXCEPT ![JointOrder[calib.k]] = calib.pw]
    /\ calib' = [calib EXCEPT !.st = "move_store"]
    /\ UNCHANGED <<variant, current_pw, button_states, status, mainpc,
                   jogTimers, stopTimers, statusQueue, presets,
                   movement_threads, active_servos, jogs, movement_lock,
                   njog, nevents, stopped, pwAtStop, disabledSince,
                   inflight, staleJogs, unheldRelease, monitor, failed,
                   target_pw, velocities, settings, mouse_servo, offTimers,
                   loop_at, ticks, config, accel, pi>>

\* _move_with_acceleration: self.current_pw[servo_name] = current_pos, then
\* _check_movement_frequency raises AttributeError, which the thread's
\* except clause turns into the status "Calibration error"
Imp_calib_move_store ==
    /\ variant = "improved"
    /\ calib.st = "move_store"
    /\ current_pw' = [current_pw EXCEPT ![JointOrder[calib.k]] = calib.pw]
    /\ calib' = [calib EXCEPT !.st = "ended"]
    /\ statusQueue' = statusQueue + 1
    /\ UNCHANGED <<variant, hw, button_states, status, mainpc, jogTimers,
                   stopTimers, presets, movement_threads, active_servos,
                   jogs, movement_lock, njog, nevents, stopped, pwAtStop,
                   disabledSince, inflight, staleJogs, unheldRelease,
                   monitor, failed, target_pw, velocities, settings,
                   mouse_servo, offTimers, loop_at, ticks, config, accel, pi>>

\* the sweeps: self.pi.set_servo_pulsewidth(pin, test_pw)
Imp_calib_sweep_write ==
    /\ variant = "improved"
    /\ calib.st = "sweep_write"
    /\ hw' = [hw EXCEPT ![JointOrder[calib.k]] = calib.pw]
    /\ calib' = [calib EXCEPT !.st = "sweep_store"]
    /\ UNCHANGED <<variant, current_pw, button_states, status, mainpc,
                   jogTimers, stopTimers, statusQueue, presets,
                   movement_threads, active_servos, jogs, movement_lock,
                   njog, nevents, stopped, pwAtStop, disabledSince,
                   inflight, staleJogs, unheldRelease, monitor, failed,
                   target_pw, velocities, settings, mouse_servo, offTimers,
                   loop_at, ticks, config, accel, pi>>

\* the next test_pw of the sweep of phase ph after pw, or 0 when the sweep is
\* over: range(center, min_pw - 100, -10) with the break under min_pw - 50,
\* range(center, max_pw + 100, 10) with the break over max_pw + 50
Imp_next_test_pw(j, ph, pw) ==
    LET lim == Imp_SERVO_LIMITS[j]
    IN  IF ph = 2
        THEN IF pw - 10 > lim[1] - 100 /\ ~(pw - 10 < lim[1] - 50)
             THEN pw - 10 ELSE 0
        ELSE IF pw + 10 < lim[2] + 100 /\ ~(pw + 10 > lim[2] + 50)
             THEN pw + 10 ELSE 0

\* the sweeps: self.current_pw[name] = test_pw, and the sleep
Imp_calib_sweep_store ==
    /\ variant = "improved"
    /\ calib.st = "sweep_store"
    /\ current_pw' = [current_pw EXCEPT ![JointOrder[calib.k]] = calib.pw]
    /\ calib' = LET nxt == Imp_next_test_pw(JointOrder[calib.k], calib.phase,
                                            calib.pw)
                IN  IF nxt # 0 THEN [calib EXCEPT !.st = "sweep_write", !.pw = nxt]
                    ELSE [calib EXCEPT !.st = "move"]
    /\ UNCHANGED <<variant, hw, button_states, status, mainpc, jogTimers,
                   stopTimers, statusQueue, presets, movement_threads,
                   active_servos, jogs, movement_lock, njog, nevents,
                   stopped, pwAtStop, disabledSince, inflight, staleJogs,
                   unheldRelease, monitor, failed, target_pw, velocities,
                   settings, mouse_servo, offTimers, loop_at, ticks, config,
                   accel, pi>>

NextImproved ==
    \/ \E b \in Buttons, i \in JogIds : Imp_button_press(b, i)
    \/ \E i \in JogIds : Imp_jog_start(i)
    \/ \E i \in JogIds : Imp_jog_acquire(i)
    \/ \E i \in JogIds : Imp_jog_loop(i)
    \/ \E i \in JogIds : Imp_jog_store(i)
    \/ \E i \in JogIds : Imp_jog_write(i)
    \/ \E b \in Buttons : Imp_button_release(b)
    \/ \E p \in PresetNames : Imp_move_to_preset(p, 1)
    \/ \E t \in ThreadIds : Imp_preset_acquire(t)
    \/ \E t \in ThreadIds : Imp_preset_snapshot(t)
    \/ \E t \in ThreadIds : Imp_preset_store(t)
    \/ \E t \in ThreadIds : Imp_preset_write(t)
    \/ Imp_thread_status
    \/ Imp_emergency_stop
    \/ Imp_emergency_stop_step
    \/ Imp_reactivate_servos
    \/ Imp_reactivate_step

\* commandImproved.py under jog, preset and emergency stop commands, with one
\* preset request in the run
SpecImproved == InitImproved /\ [][NextImproved]_vars

NextCalibration ==
    \/ Imp_calibrate_servos
    \/ Imp_calib_move_read
    \/ Imp_calib_move_write
    \/ Imp_calib_move_store
    \/ Imp_calib_sweep_write
    \/ Imp_calib_sweep_store
    \/ Imp_thread_status
    \/ \E p \in PresetNames : Imp_move_to_preset(p, 1)
    \/ \E t \in ThreadIds : Imp_preset_acquire(t)
    \/ \E t \in ThreadIds : Imp_preset_snapshot(t)
    \/ \E t \in ThreadIds : Imp_preset_store(t)
    \/ \E t \in ThreadIds : Imp_preset_write(t)

\* commandImproved.py under one calibration request and one preset request
SpecCalibration == InitImproved /\ [][NextCalibration]_vars

(***************************************************************************)
(* The three programs together, and the emergency stop under fairness.     *)
(***************************************************************************)
Init == InitCommand \/ InitTest \/ InitImproved

Next == NextCommand \/ NextTest \/ NextImproved

\* any of the three programs under any commands
Spec == Init /\ [][Next]_vars

NextStop ==
    \/ \E b \in Buttons : Cmd_button_press(b)
    \/ \E b \in Buttons : Cmd_jog_timer(b)
    \/ Cmd_jog_store
    \/ Cmd_jog_write
    \/ \E b \in Buttons : Cmd_button_release(b)
    \/ Cmd_emergency_stop
    \/ Cmd_emergency_stop_step
    \/ Cmd_reactivate_servos
    \/ Cmd_reactivate_step
    \/ \E b \in Buttons, i \in JogIds : Test_button_press(b, i)
    \/ \E i \in JogIds : Test_jog_loop(i)
    \/ \E i \in JogIds : Test_jog_store(i)
    \/ \E i \in JogIds : Test_jog_write(i)
    \/ \E b \in Buttons : Test_button_release(b)
    \/ Test_emergency_stop
    \/ Test_stop_ready

\* Command.py and test.py under jog and emergency stop commands.  The Tk main
\* loop does not stop: a handler that sleeps goes on after the sleep, and a
\* callback given to root.after is called once it is due.
FairStop ==
    /\ (InitCommand \/ InitTest)
    /\ [][NextStop]_vars
    /\ WF_vars(Cmd_jog_store)
    /\ WF_vars(Cmd_jog_write)
    /\ WF_vars(Cmd_emergency_stop_step)
    /\ WF_vars(Cmd_reactivate_servos)
    /\ WF_vars(Cmd_reactivate_step)
    /\ WF_vars(Test_stop_ready)

(***************************************************************************)
(* Hardware write failures: self.pi.set_servo_pulsewidth raises (the       *)
(* connection to the pigpio daemon is lost, the daemon rejects the         *)
(* command) in a jog step or a ramp step of test.py, or in a ramp step of  *)
(* commandImproved.py.  A write that raises leaves the pin as it was.      *)
(***************************************************************************)

\* test.py, jog thread: the write raises; "except Exception as e: print; break"
\* ends the loop and the thread
Test_jog_write_error(i) ==
    /\ variant = "test"
    /\ jogs[i].st = "write"
    /\ failed' = failed \cup {jogs[i].b[1]}
    /\ jogs' = [jogs EXCEPT ![i].st = "ended"]
    /\ UNCHANGED <<variant, current_pw, hw, button_states, status, mainpc,
                   jogTimers, stopTimers, statusQueue, presets,
                   movement_threads, active_servos, movement_lock, calib,
                   njog, nevents, stopped, pwAtStop, disabledSince,
                   inflight, staleJogs, unheldRelease, monitor, target_pw,
                   velocities, settings, mouse_servo, offTimers, loop_at,
                   ticks, config, accel, pi>>

\* test.py, preset thread: the write raises; the except clause prints "Error
\* moving ..." and the loops go on with the next joint and the next step
Test_preset_write_error(t) ==
    /\ variant = "test"
    /\ presets[t].st = "write"
    /\ failed' = failed \cup {JointOrder[presets[t].k]}
    /\ presets' = [presets EXCEPT ![t] =
                       LET a == AfterWrite(@, @.n)
                       IN  IF a.st = "done" THEN [a EXCEPT !.st = "off"] ELSE a]
    /\ UNCHANGED <<variant, current_pw, hw, button_states, status, mainpc,
                   jogTimers, stopTimers, statusQueue, movement_threads,
                   active_servos, jogs, movement_lock, calib, njog, nevents,
                   stopped, pwAtStop, disabledSince, inflight, staleJogs,
                   unheldRelease, monitor, target_pw, velocities, settings,
                   mouse_servo, offTimers, loop_at, ticks, config, accel, pi>>

\* commandImproved.py, preset thread: the write raises; the exception leaves
\* the loops and the with block, which frees the lock, and the except clause of
\* the thread posts root.after(0, lambda: servo_status.config(text=f"Error: {e}"))
Imp_preset_write_error(t) ==
    /\ variant = "improved"
    /\ presets[t].st = "write"
    /\ failed' = failed \cup {JointOrder[presets[t].k]}
    /\ presets' = [presets EXCEPT ![t].st = "aborted"]
    /\ movement_lock' = "free"
    /\ UNCHANGED <<variant, current_pw, hw, button_states, status, mainpc,
                   jogTimers, stopTimers, statusQueue, movement_threads,
                   active_servos, jogs, calib, njog, nevents, stopped,
                   pwAtStop, disabledSince, inflight, staleJogs,
                   unheldRelease, monitor, target_pw, velocities, settings,
                   mouse_servo, offTimers, loop_at, ticks, config, accel, pi>>

\* the callback the except clause posted.  Its lambda reads e, which the thread
\* unbinds when it leaves the except clause: called before that the callback
\* sets the status, called after it the callback raises NameError and the
\* status stays as it is
Imp_error_status(t) ==
    /\ variant = "improved"
    /\ mainpc.pc = "idle"
    /\ presets[t].st = "aborted"
    /\ presets' = [presets EXCEPT ![t].st = "done"]
    /\ status' \in {"Error: ...", status}
    /\ UNCHANGED <<variant, current_pw, hw, button_states, mainpc,
                   jogTimers, stopTimers, statusQueue, movement_threads,
                   active_servos, jogs, movement_lock, calib, njog, nevents,
                   stopped, pwAtStop, disabledSince, inflight, staleJogs,
                   unheldRelease, monitor, failed, target_pw, velocities,
                   settings, mouse_servo, offTimers, loop_at, ticks, config,
                   accel, pi>>

NextFault ==
    \/ \E b \in Buttons : Test_button_press(b, 1)
    \/ Test_jog_loop(1)
    \/ Test_jog_store(1)
    \/ Test_jog_write(1)
    \/ Test_jog_write_error(1)
    \/ \E b \in Buttons : Test_button_release(b)
    \/ \E p \in TestTargets : Test_move_to_preset(p, 1)
    \/ \E t \in ThreadIds : Test_preset_on(t)
    \/ \E t \in ThreadIds : Test_preset_snapshot(t)
    \/ \E t \in ThreadIds : Test_preset_store(t)
    \/ \E t \in ThreadIds : Test_preset_write(t)
    \/ \E t \in ThreadIds : Test_preset_write_error(t)
    \/ \E t \in ThreadIds : Test_preset_off(t)
    \/ Test_preset_reached
    \/ \E p \in PresetNames : Imp_move_to_preset(p, 1)
    \/ \E t \in ThreadIds : Imp_preset_acquire(t)
    \/ \E t \in ThreadIds : Imp_preset_snapshot(t)
    \/ \E t \in ThreadIds : Imp_preset_store(t)
    \/ \E t \in ThreadIds : Imp_preset_write(t)
    \/ \E t \in ThreadIds : Imp_preset_write_error(t)
    \/ \E t \in ThreadIds : Imp_error_status(t)
    \/ Imp_thread_status

\* test.py under jog and preset commands with one jog thread in the run, and
\* commandImproved.py under preset commands, with writes that may raise
SpecFault == (InitTest \/ InitImproved) /\ [][NextFault]_vars

(***************************************************************************)
(* The preset ramp on its own: Command.py and test.py under preset         *)
(* requests that come one after the other, each after the thread of the    *)
(* one before has ended, from positions the jog buttons reach, and with no *)
(* jog and no emergency stop.                                              *)
(***************************************************************************)
Cmd_RampTargets == PresetNames \cup {"beyond"}

\* positions of test.py that jog steps from the centre reach: 43 steps of BASE
\* (10 each), 4 steps of GRIPPER (25 each)
Test_RampStarts ==
    {[j \in Joints |-> IF j = "BASE" THEN b ELSE g] :
        b \in {1500, 1930}, g \in {1500, 1600}}

InitRamp ==
    \/ InitCommand
    \/ /\ variant = "test"
       /\ hw = [j \in Joints |-> 0]
       /\ current_pw \in Test_RampStarts
       /\ InitRest

\* no preset thread is running
RampIdle == \A t \in ThreadIds : presets[t].st \in {"unborn", "done"}

NextRamp ==
    \/ \E p \in Cmd_RampTargets, t \in ThreadIds :
           RampIdle /\ Cmd_move_to_preset(p, t)
    \/ \E t \in ThreadIds : Cmd_preset_snapshot(t)
    \/ \E t \in ThreadIds : Cmd_preset_store(t)
    \/ \E t \in ThreadIds : Cmd_preset_write(t)
    \/ Cmd_preset_reached
    \/ \E p \in Test_RampTargets, t \in ThreadIds :
           RampIdle /\ Test_move_to_preset(p, t)
    \/ \E t \in ThreadIds : Test_preset_on(t)
    \/ \E t \in ThreadIds : Test_preset_snapshot(t)
    \/ \E t \in ThreadIds : Test_preset_store(t)
    \/ \E t \in ThreadIds : Test_preset_write(t)
    \/ \E t \in ThreadIds : Test_preset_off(t)
    \/ Test_preset_reached

SpecRamp == InitRamp /\ [][NextRamp]_vars

(***************************************************************************)
(* Python floats of the velocity-eased programs.  A float is an IEEE 754   *)
(* double: 53 significant bits, every operation rounded to nearest, ties   *)
(* to even.  A float is held as [s, m]: its sign (1 or -1; 1 for zero) and *)
(* its magnitude in FK digits of 12 bits, two of them before the point:    *)
(* pulse widths, velocities and factors are below 2^24 and, unless 0, far  *)
(* above 2^-43, so that 96 bits after the point hold every double of a run *)
(* exactly.                                                                *)
(***************************************************************************)
FD == 4096

FK == 10

FZero == [s |-> 1, m |-> <<0, 0, 0, 0, 0, 0, 0, 0, 0, 0>>]

\* the digits f[1] .. f[n], each worked out once
Digits(f, n) == SubSeq(f, 1, n)

\* the number of bits of a digit
DigitLen(x) == Cardinality({e \in 0..11 : 2^e <= x})

\* the magnitude m (digits of any number) rounded to 53 significant bits;
\* sticky: the exact value has bits below the last digit of m
RoundMag(m, sticky) ==
    LET n == Len(m)
    IN  IF \A i \in 1..n : m[i] = 0 THEN m
        ELSE
        LET f    == CHOOSE i \in 1..n : m[i] # 0 /\ \A j \in 1..(i - 1) : m[j] = 0
            \* the last bit that is kept, counted from the first bit of m[1]
            lk   == 12 * (f - 1) + (12 - DigitLen(m[f])) + 53
        IN  IF lk >= 12 * n THEN m
            ELSE
            LET kd   == (lk - 1) \div 12 + 1
                ulp  == 2^(11 - ((lk - 1) % 12))
                gd   == lk \div 12 + 1
                gw   == 2^(11 - (lk % 12))
                rest == sticky \/ (m[gd] % gw) # 0 \/ \E l \in (gd + 1)..n : m[l] # 0
                up   == (m[gd] \div gw) % 2 = 1 /\ (rest \/ (m[kd] \div ulp) % 2 = 1)
                cut  == Digits([i \in 1..n |-> IF i < kd THEN m[i]
                                               ELSE IF i = kd THEN m[i] - (m[i] % ulp)
                                               ELSE 0], n)
            IN  IF ~up THEN cut
                ELSE Digits([i \in 1..n |->
                                IF i > kd THEN 0
                                ELSE IF i = kd THEN (cut[i] + ulp) % FD
                                ELSE IF cut[kd] + ulp >= FD
                                        /\ \A k \in (i + 1)..(kd - 1) : cut[k] = FD - 1
                                THEN (cut[i] + 1) % FD
                                ELSE cut[i]], n)

\* a + b of magnitudes
AddMag(a, b) ==
    Digits([i \in 1..FK |->
               (a[i] + b[i]
                + IF \E j \in (i + 1)..FK :
                         a[j] + b[j] >= FD
                         /\ \A k \in (i + 1)..(j - 1) : a[k] + b[k] = FD - 1
                  THEN 1 ELSE 0) % FD], FK)

\* a - b of magnitudes, a >= b
SubMag(a, b) ==
    Digits([i \in 1..FK |->
               (a[i] - b[i] + FD
                - IF \E j \in (i + 1)..FK :
                         a[j] < b[j] /\ \A k \in (i + 1)..(j - 1) : a[k] = b[k]
                  THEN 1 ELSE 0) % FD], FK)

MagLess(a, b) == \E i \in 1..FK : a[i] < b[i] /\ \A j \in 1..(i - 1) : a[j] = b[j]

\* the float of sign s and magnitude m
Signed(s, m) == IF m = FZero.m THEN FZero ELSE [s |-> s, m |-> m]

FromInt(n) ==
    IF n >= 0 THEN Signed(1, <<n \div FD, n % FD, 0, 0, 0, 0, 0, 0, 0, 0>>)
    ELSE Signed(-1, <<(-n) \div FD, (-n) % FD, 0, 0, 0, 0, 0, 0, 0, 0>>)

FNeg(x) == Signed(-x.s, x.m)

FAbs(x) == Signed(1, x.m)

\* math.copysign(x, y) for y # 0
FCopySign(x, y) == Signed(y.s, x.m)

FLess(x, y) ==
    IF x.s # y.s THEN x.s < y.s
    ELSE IF x.s = 1 THEN MagLess(x.m, y.m) ELSE MagLess(y.m, x.m)

FMin(x, y) == IF FLess(y, x) THEN y ELSE x

FMax(x, y) == IF FLess(x, y) THEN y ELSE x

FAdd(x, y) ==
    IF x.s = y.s THEN Signed(x.s, RoundMag(AddMag(x.m, y.m), FALSE))
    ELSE IF MagLess(x.m, y.m) THEN Signed(y.s, RoundMag(SubMag(y.m, x.m), FALSE))
    ELSE Signed(x.s, RoundMag(SubMag(x.m, y.m), FALSE))

FSub(x, y) == FAdd(x, FNeg(y))

\* the products of digits that meet at digit k of a product
Column(a, b, k) ==
    LET T(i) == IF k - i \in 1..FK THEN a[i] * b[k - i] ELSE 0
    IN  T(1) + T(2) + T(3) + T(4) + T(5) + T(6) + T(7) + T(8) + T(9) + T(10)

\* one step of carrying: every digit keeps its low 12 bits and takes what the
\* digit after it has above them
CarryStep(r) ==
    Digits([k \in 1..(2 * FK) |->
               (r[k] % FD) + IF k < 2 * FK THEN r[k + 1] \div FD ELSE 0], 2 * FK)

\* the digits r, each at most FD, with their carries taken
CarryLast(r) ==
    Digits([i \in 1..(2 * FK) |->
               (r[i] + IF \E j \in (i + 1)..(2 * FK) :
                              r[j] >= FD /\ \A k \in (i + 1)..(j - 1) : r[k] = FD - 1
                       THEN 1 ELSE 0) % FD], 2 * FK)

\* the product of two magnitudes, rounded
MulMag(a, b) ==
    LET raw == Digits([k \in 1..(2 * FK) |-> Column(a, b, k)], 2 * FK)
        p   == RoundMag(CarryLast(CarryStep(CarryStep(CarryStep(raw)))), FALSE)
    IN  SubSeq(p, 3, FK + 2)

FMul(x, y) ==
    IF x.s = y.s THEN Signed(1, MulMag(x.m, y.m)) ELSE Signed(-1, MulMag(x.m, y.m))

\* x / float(n) for a natural n from 1 to 4096, by long division
FDivInt(x, n) ==
    LET m   == x.m
        t1  == m[1]
        t2  == (t1 % n) * FD + m[2]
        t3  == (t2 % n) * FD + m[3]
        t4  == (t3 % n) * FD + m[4]
        t5  == (t4 % n) * FD + m[5]
        t6  == (t5 % n) * FD + m[6]
        t7  == (t6 % n) * FD + m[7]
        t8  == (t7 % n) * FD + m[8]
        t9  == (t8 % n) * FD + m[9]
        t10 == (t9 % n) * FD + m[10]
    IN  Signed(x.s, RoundMag(<<t1 \div n, t2 \div n, t3 \div n, t4 \div n, t5 \div n,
                               t6 \div n, t7 \div n, t8 \div n, t9 \div n, t10 \div n>>,
                             t10 % n # 0))

\* the float written a/b in decimal, as 0.3 is 3/10
Lit(a, b) == FDivInt(FromInt(a), b)

\* int(x): towards zero
FInt(x) == x.s * (x.m[1] * FD + x.m[2])

(***************************************************************************)
(* The velocity-eased programs of src/devlopingsystem.                     *)
(*                                                                         *)
(* "enhance": enhanceSens.py, RoboticArmController.  "smoothener": the     *)
(* same class with the two functions of elbowsmoothenerandloopfunctions.py *)
(* as its smooth_elbow_movement and smooth_movement_loop.  "elbow":        *)
(* yes_but_no.py, ElbowTuningTest, whose one joint is ELBOW.               *)
(*                                                                         *)
(* enhanceSens.py names home_position, pick_position, place_position,      *)
(* rest_position, test_all_servos, emergency_stop, button_press,           *)
(* button_release and all_servos_off and defines none of them; they are    *)
(* taken to exist and are not modelled.  The test sequences of             *)
(* yes_but_no.py (test_smooth_updown, test_quick_movements), its           *)
(* configuration file and the settings sliders are left out: STEP_SIZE is  *)
(* what the settings slider was left at when the run begins, every other   *)
(* setting is its default.                                                 *)
(***************************************************************************)
EaseVariants == {"enhance", "smoothener", "elbow"}

\* SERVO_PINS.keys() as far as it is modelled, in the dictionary's order
EaseOrder ==
    CASE variant = "enhance"    -> JointOrder
      [] variant = "smoothener" -> <<"BASE", "ELBOW">>
      [] variant = "elbow"      -> <<"ELBOW">>

EaseJoints == {EaseOrder[i] : i \in 1..Len(EaseOrder)}

Enh_SERVO_LIMITS(name) ==
    CASE name = "BASE"    -> <<600, 2400>>
      [] name = "ELBOW"   -> <<500, 2500>>
      [] name = "GRIPPER" -> <<800, 2200>>

Elb_ELBOW_LIMITS == <<500, 2500>>

EaseLimits(name) == IF variant = "elbow" THEN Elb_ELBOW_LIMITS ELSE Enh_SERVO_LIMITS(name)

\* DEFAULT_SETTINGS of enhanceSens.py and of yes_but_no.py, and the constants
\* of smooth_elbow_movement in elbowsmoothenerandloopfunctions.py
STEP_SIZE == 15

ACCELERATION == Lit(2, 10)

DECELERATION == Lit(3, 10)

SMOOTHING == Lit(8, 10)

MOUSE_SENSITIVITY == 5

GRAVITY_FACTOR == Lit(3, 10)

EXTRA_SMOOTHING == Lit(4, 10)

GRAVITY_RATIO_FACTOR == FromInt(1)

UPWARD_BOOST == FromInt(1)

DOWNWARD_REDUCTION == Lit(5, 10)

\* self.settings = self.DEFAULT_SETTINGS.copy(), the entries that are modelled
DEFAULT_SETTINGS ==
    [STEP_SIZE            |-> STEP_SIZE,
     ACCELERATION         |-> ACCELERATION,
     DECELERATION         |-> DECELERATION,
     GRAVITY_FACTOR       |-> GRAVITY_FACTOR,
     GRAVITY_RATIO_FACTOR |-> GRAVITY_RATIO_FACTOR]

\* self.speed_factor = tk.DoubleVar(value=1.0)
Enh_speed_factor == FromInt(1)

\* max(min_pw, min(x, max_pw)) of a float
FClamp(x, lim) == FMax(FromInt(lim[1]), FMin(x, FromInt(lim[2])))

\* the velocity left as the acceleration made it
Ease_uncapped(v, max_velocity) == v

\* math.copysign(min(abs(v), max_velocity), v)
Ease_capped(v, max_velocity) == FCopySign(FMin(FAbs(v), max_velocity), v)

\* the damping with its test reversed: the velocity is damped while it points
\* at the target
Ease_damped_reversed(v, diff) ==
    IF FLess(FZero, FMul(v, diff))
    THEN FMul(v, FSub(FromInt(1), FMul(settings.DECELERATION, FromInt(2))))
    ELSE v

\* `if (velocity * diff) < 0: velocity *= (1.0 - DECELERATION * 2)`
Ease_damped(v, diff) ==
    IF FLess(FMul(v, diff), FZero)
    THEN FMul(v, FSub(FromInt(1), FMul(settings.DECELERATION, FromInt(2))))
    ELSE v

\* the velocity after the acceleration, the deceleration and the reversal
\* damping of one visit
Ease_velocity(velocity, diff, max_velocity) ==
    Ease_damped(
        IF FLess(FAbs(velocity), max_velocity)
        THEN Ease_capped(FAdd(velocity,
                              FCopySign(FMul(settings.ACCELERATION, max_velocity), diff)),
                         max_velocity)
        ELSE IF FLess(FAbs(diff), FMul(FAbs(velocity), FromInt(2)))
        THEN FMul(velocity, FSub(FromInt(1), settings.DECELERATION))
        ELSE velocity,
        diff)

\* current * smoothing + new_position * (1 - smoothing)
Smoothed(current, new_position, smoothing) ==
    FAdd(FMul(current, smoothing), FMul(new_position, FSub(FromInt(1), smoothing)))

\* (current - min_pw) / (max_pw - min_pw)
Ease_position_ratio(current, lim) ==
    FDivInt(FSub(current, FromInt(lim[1])), lim[2] - lim[1])

\* min(0.95, SMOOTHING + EXTRA_SMOOTHING)
Ease_effective_smoothing == FMin(Lit(95, 100), FAdd(SMOOTHING, EXTRA_SMOOTHING))

\* elbowsmoothenerandloopfunctions.py: gravity_assist of smooth_elbow_movement
Sm_gravity_assist(diff, position_ratio) ==
    IF FLess(diff, FZero)
    THEN FMul(FMul(FNeg(GRAVITY_FACTOR), position_ratio), FromInt(settings.STEP_SIZE))
    ELSE FMul(FMul(FMul(GRAVITY_FACTOR, FSub(FromInt(1), position_ratio)),
                   FromInt(settings.STEP_SIZE)), Lit(5, 10))

\* elbowsmoothenerandloopfunctions.py: smooth_elbow_movement; the first value
\* of smoothed_position is overwritten before it is read
Sm_smooth_elbow_movement(current, target, velocity) ==
    LET gravity_assist    ==
            Sm_gravity_assist(FSub(target, current),
                              Ease_position_ratio(current, Enh_SERVO_LIMITS("ELBOW")))
        adjusted_velocity == FAdd(velocity, gravity_assist)
        new_position      == FAdd(current, adjusted_velocity)
    IN  Smoothed(current, new_position, Ease_effective_smoothing)

\* yes_but_no.py: gravity_assist of smooth_elbow_movement
Elb_gravity_assist(diff, adjusted_ratio) ==
    IF FLess(diff, FZero)
    THEN FMul(FMul(FMul(FNeg(settings.GRAVITY_FACTOR), adjusted_ratio),
                   FromInt(settings.STEP_SIZE)), UPWARD_BOOST)
    ELSE FMul(FMul(FMul(settings.GRAVITY_FACTOR, FSub(FromInt(1), adjusted_ratio)),
                   FromInt(settings.STEP_SIZE)), DOWNWARD_REDUCTION)

\* yes_but_no.py: smooth_elbow_movement (movement_data is a log)
Elb_smooth_elbow_movement(current, target, velocity) ==
    LET position_ratio    == Ease_position_ratio(current, Elb_ELBOW_LIMITS)
        adjusted_ratio    == FMul(position_ratio, settings.GRAVITY_RATIO_FACTOR)
        gravity_assist    == Elb_gravity_assist(FSub(target, current), adjusted_ratio)
        adjusted_velocity == FAdd(velocity, gravity_assist)
        new_position      == FAdd(current, adjusted_velocity)
        smoothed_position == Smoothed(current, new_position, Ease_effective_smoothing)
    IN  FClamp(smoothed_position, Elb_ELBOW_LIMITS)

\* the position a moving visit stores
\* enhanceSens.py: the step is clamped, then smoothed
Enh_new_position(name, current, velocity) ==
    Smoothed(current, FClamp(FAdd(current, velocity), Enh_SERVO_LIMITS(name)),
             SMOOTHING)

\* elbowsmoothenerandloopfunctions.py: the step (of the ELBOW: the elbow
\* function) is smoothed, then clamped
Sm_new_position(name, current, target, velocity) ==
    FClamp(IF name = "ELBOW" THEN Sm_smooth_elbow_movement(current, target, velocity)
           ELSE Smoothed(current, FAdd(current, velocity), SMOOTHING),
           Enh_SERVO_LIMITS(name))

\* a moving visit stores its velocity and its position and writes the pin
Ease_store(name, velocity, new_position) ==
    /\ velocities' = [velocities EXCEPT ![name] = velocity]
    /\ current_pw' = [current_pw EXCEPT ![name] = new_position]
    /\ hw' = [hw EXCEPT ![name] = FInt(new_position)]

\* min(1.0, abs(diff) / 100)
Ease_distance_factor(diff) == FMin(FromInt(1), FDivInt(FAbs(diff), 100))

\* the branch `if abs(diff) > 1` of smooth_movement_loop, its velocity known
Enh_move(name, target, current, velocity) ==
    Ease_store(name, velocity,
               IF variant = "enhance" THEN Enh_new_position(name, current, velocity)
               ELSE Sm_new_position(name, current, target, velocity))

\* the visit with its last branch storing the target for every joint, active
\* or not
Enh_visit_diff_snap_all(name, target, current, diff) ==
    IF name \notin active_servos /\ FLess(FAbs(diff), FromInt(1))
    THEN UNCHANGED <<current_pw, velocities, hw>>
    ELSE IF FLess(FromInt(1), FAbs(diff))
    THEN Enh_move(name, target, current,
                  Ease_velocity(velocities[name], diff,
                                FMul(FMul(FromInt(settings.STEP_SIZE), Enh_speed_factor),
                                     Ease_distance_factor(diff))))
    ELSE /\ velocities' = [velocities EXCEPT ![name] = FZero]
         /\ current_pw' = [current_pw EXCEPT ![name] = target]
         /\ hw' = [hw EXCEPT ![name] = FInt(target)]

\* the body of `for name in self.SERVO_PINS.keys()` for one name, diff known
Enh_visit_diff(name, target, current, diff) ==
    IF name \notin active_servos /\ FLess(FAbs(diff), FromInt(1))
    THEN UNCHANGED <<current_pw, velocities, hw>>
    ELSE IF FLess(FromInt(1), FAbs(diff))
    THEN Enh_move(name, target, current,
                  Ease_velocity(velocities[name], diff,
                                FMul(FMul(FromInt(settings.STEP_SIZE), Enh_speed_factor),
                                     Ease_distance_factor(diff))))
    ELSE /\ velocities' = [velocities EXCEPT ![name] = FZero]
         /\ IF name \in active_servos
            THEN /\ current_pw' = [current_pw EXCEPT ![name] = target]
                 /\ hw' = [hw EXCEPT ![name] = FInt(target)]
            ELSE UNCHANGED <<current_pw, hw>>

\* smooth_movement_loop of enhanceSens.py and of
\* elbowsmoothenerandloopfunctions.py: the body of `for name in
\* self.SERVO_PINS.keys()` for one name
Enh_visit(name) ==
    Enh_visit_diff(name, target_pw[name], current_pw[name],
                   FSub(target_pw[name], current_pw[name]))

\* one pass of the loop is counted when its last joint has been visited
\* (time.sleep(SPEED_INTERVAL / 1000.0) follows)
Counted(n) == IF loop_at = Len(EaseOrder) /\ n < TickCap THEN n + 1 ELSE n

Enh_smooth_movement_loop ==
    /\ variant \in {"enhance", "smoothener"}
    /\ Enh_visit(EaseOrder[loop_at])
    /\ loop_at' = (loop_at % Len(EaseOrder)) + 1
    /\ ticks' = Counted(ticks)
    /\ UNCHANGED <<variant, button_states, status, mainpc, jogTimers,
                   stopTimers, statusQueue, presets, movement_threads,
                   active_servos, jogs, movement_lock, calib, njog, nevents,
                   stopped, pwAtStop, disabledSince, inflight, staleJogs,
                   unheldRelease, monitor, failed, target_pw, settings,
                   mouse_servo, offTimers, config, accel, pi>>

\* yes_but_no.py: the branch `if abs(diff) > 1` of movement_loop, its velocity
\* known
Elb_move(target, current, velocity) ==
    Ease_store("ELBOW", velocity, Elb_smooth_elbow_movement(current, target, velocity))

\* yes_but_no.py: one pass of movement_loop, diff known
Elb_pass_diff(target, current, diff) ==
    IF "ELBOW" \notin active_servos
    THEN UNCHANGED <<current_pw, velocities, hw>>
    ELSE IF FLess(FromInt(1), FAbs(diff))
    THEN Elb_move(target, current,
                  Ease_velocity(velocities["ELBOW"], diff,
                                FMul(FromInt(settings.STEP_SIZE),
                                     Ease_distance_factor(diff))))
    ELSE /\ velocities' = [velocities EXCEPT !["ELBOW"] = FZero]
         /\ current_pw' = [current_pw EXCEPT !["ELBOW"] = target]
         /\ hw' = [hw EXCEPT !["ELBOW"] = FInt(target)]

\* yes_but_no.py: one pass of `while self.running` in movement_loop; no
\* statement of the try block can raise
Elb_movement_loop ==
    /\ variant = "elbow"
    /\ Elb_pass_diff(target_pw["ELBOW"], current_pw["ELBOW"],
                     FSub(target_pw["ELBOW"], current_pw["ELBOW"]))
    /\ ticks' = Counted(ticks)
    /\ UNCHANGED <<variant, button_states, status, mainpc, jogTimers,
                   stopTimers, statusQueue, presets, movement_threads,
                   active_servos, jogs, movement_lock, calib, njog, nevents,
                   stopped, pwAtStop, disabledSince, inflight, staleJogs,
                   unheldRelease, monitor, failed, target_pw, settings,
                   mouse_servo, offTimers, loop_at, config, accel, pi>>

\* the pulse widths a user asks for in one run; two of them are beyond every
\* joint's limits
PulseInputs ==
    {FromInt(300), FromInt(1499), FDivInt(FromInt(3001), 2), FromInt(1501),
     FromInt(1510), FromInt(2700)}

\* a slider whose range is not the joint's
ScaleRange_unbounded(lim) == PulseInputs

\* ttk.Scale(from_=min_pw, to=max_pw): the values the user can drag the slider to
ScaleRange(lim) ==
    {v \in PulseInputs : ~FLess(v, FromInt(lim[1])) /\ ~FLess(FromInt(lim[2]), v)}

\* ttk.Scale.set(value): the widget keeps the value within from_ and to and
\* hands what it kept to its command
Scale_set(value, lim) == FClamp(value, lim)

\* where a drag leaves the indicator: its horizontal distance from the centre
\* of the canvas and half the width of the canvas, in pixels
MouseOffsets == {<<-100, 100>>, <<1, 100>>, <<100, 100>>}

\* on_slider_change(servo_name, value); focused: root.focus_get() is the slider
Enh_slider_effect(name, value, focused) ==
    /\ target_pw' = [target_pw EXCEPT ![name] = value]
    /\ IF focused /\ name \notin active_servos
       THEN /\ active_servos' = active_servos \cup {name}
            /\ hw' = [hw EXCEPT ![name] = FInt(current_pw[name])]
       ELSE UNCHANGED <<active_servos, hw>>

Enh_on_slider_change(name, value, focused) ==
    /\ variant \in {"enhance", "smoothener"}
    /\ nevents < MaxEvents
    /\ nevents' = nevents + 1
    /\ Enh_slider_effect(name, value, focused)
    /\ UNCHANGED <<variant, current_pw, button_states, status, mainpc,
                   jogTimers, stopTimers, statusQueue, presets,
                   movement_threads, jogs, movement_lock, calib, njog,
                   stopped, pwAtStop, disabledSince, inflight, staleJogs,
                   unheldRelease, monitor, failed, velocities, settings,
                   mouse_servo, offTimers, loop_at, ticks, config, accel, pi>>

Enh_mouse_control_start(name) ==
    /\ variant \in {"enhance", "smoothener"}
    /\ nevents < MaxEvents
    /\ mouse_servo = "None"
    /\ nevents' = nevents + 1
    /\ mouse_servo' = name
    /\ active_servos' = active_servos \cup {name}
    /\ hw' = [hw EXCEPT ![name] = FInt(current_pw[name])]
    /\ status' = "Moving (Mouse Control)"
    /\ UNCHANGED <<variant, current_pw, button_states, mainpc, jogTimers,
                   stopTimers, statusQueue, presets, movement_threads, jogs,
                   movement_lock, calib, njog, stopped, pwAtStop,
                   disabledSince, inflight, staleJogs, unheldRelease,
                   monitor, failed, target_pw, velocities, settings,
                   offTimers, loop_at, ticks, config, accel, pi>>

\* new_target of mouse_control_move for the indicator at dx
Enh_new_target(name, dx) ==
    LET lim              == Enh_SERVO_LIMITS(name)
        x_ratio          == FDivInt(FromInt(dx[1]), dx[2])
        normalized_ratio == FMul(x_ratio, FromInt(MOUSE_SENSITIVITY))
        range_pw         == lim[2] - lim[1]
        middle_pw        == FDivInt(FromInt(lim[1] + lim[2]), 2)
        target_offset    == FDivInt(FMul(normalized_ratio, FromInt(range_pw)), 2)
    IN  FAdd(middle_pw, target_offset)

\* mouse_control_move(event, servo_name) while the button is down on the
\* joint's canvas; servo_sliders[servo_name].set(...) calls on_slider_change
Enh_mouse_control_move(name, dx, focused) ==
    /\ variant \in {"enhance", "smoothener"}
    /\ nevents < MaxEvents
    /\ mouse_servo = name
    /\ nevents' = nevents + 1
    /\ Enh_slider_effect(name,
                         Scale_set(FClamp(Enh_new_target(name, dx),
                                          Enh_SERVO_LIMITS(name)),
                                   Enh_SERVO_LIMITS(name)),
                         focused)
    /\ UNCHANGED <<variant, current_pw, button_states, status, mainpc,
                   jogTimers, stopTimers, statusQueue, presets,
                   movement_threads, jogs, movement_lock, calib, njog,
                   stopped, pwAtStop, disabledSince, inflight, staleJogs,
                   unheldRelease, monitor, failed, velocities, settings,
                   mouse_servo, offTimers, loop_at, ticks, config, accel, pi>>

Enh_mouse_control_end(name) ==
    /\ variant \in {"enhance", "smoothener"}
    /\ nevents < MaxEvents
    /\ mouse_servo = name
    /\ nevents' = nevents + 1
    /\ mouse_servo' = "None"
    /\ offTimers' = [offTimers EXCEPT ![name] = @ + 1]
    /\ status' = "Ready - All servos off"
    /\ UNCHANGED <<variant, current_pw, hw, button_states, mainpc,
                   jogTimers, stopTimers, statusQueue, presets,
                   movement_threads, active_servos, jogs, movement_lock,
                   calib, njog, stopped, pwAtStop, disabledSince, inflight,
                   staleJogs, unheldRelease, monitor, failed, target_pw,
                   velocities, settings, loop_at, ticks, config, accel, pi>>

\* delayed_servo_off(servo_name), 500 ms after a release
Enh_delayed_servo_off(name) ==
    /\ variant \in {"enhance", "smoothener"}
    /\ offTimers[name] > 0
    /\ offTimers' = [offTimers EXCEPT ![name] = @ - 1]
    /\ IF name \in active_servos
       THEN /\ active_servos' = active_servos \ {name}
            /\ hw' = [hw EXCEPT ![name] = 0]
       ELSE UNCHANGED <<active_servos, hw>>
    /\ UNCHANGED <<variant, current_pw, button_states, status, mainpc,
                   jogTimers, stopTimers, statusQueue, presets,
                   movement_threads, jogs, movement_lock, calib, njog,
                   nevents, stopped, pwAtStop, disabledSince, inflight,
                   staleJogs, unheldRelease, monitor, failed, target_pw,
                   velocities, settings, mouse_servo, loop_at, ticks,
                   config, accel, pi>>

\* yes_but_no.py: slider_changed(value)
Elb_slider_effect(value) ==
    /\ target_pw' = [target_pw EXCEPT !["ELBOW"] = value]
    /\ active_servos' = {"ELBOW"}
    /\ hw' = [hw EXCEPT !["ELBOW"] = FInt(current_pw["ELBOW"])]

Elb_slider_changed(value) ==
    /\ variant = "elbow"
    /\ nevents < MaxEvents
    /\ nevents' = nevents + 1
    /\ Elb_slider_effect(value)
    /\ UNCHANGED <<variant, current_pw, button_states, status, mainpc,
                   jogTimers, stopTimers, statusQueue, presets,
                   movement_threads, jogs, movement_lock, calib, njog,
                   stopped, pwAtStop, disabledSince, inflight, staleJogs,
                   unheldRelease, monitor, failed, velocities, settings,
                   mouse_servo, offTimers, loop_at, ticks, config, accel, pi>>

\* set_position(position): position_slider.set(position) calls slider_changed
\* with what the slider kept of position
Elb_set_position_effect(position, text) ==
    /\ Elb_slider_effect(Scale_set(position, Elb_ELBOW_LIMITS))
    /\ status' = text

\* the preset buttons: Full Retract, 1/4, Full Extend
Elb_positions ==
    {FromInt(Elb_ELBOW_LIMITS[1]),
     FAdd(FromInt(Elb_ELBOW_LIMITS[1]),
          FDivInt(FromInt(Elb_ELBOW_LIMITS[2] - Elb_ELBOW_LIMITS[1]), 4)),
     FromInt(Elb_ELBOW_LIMITS[2])}

Elb_set_position(position) ==
    /\ variant = "elbow"
    /\ nevents < MaxEvents
    /\ nevents' = nevents + 1
    /\ Elb_set_position_effect(position, "Moving to position")
    /\ UNCHANGED <<variant, current_pw, button_states, mainpc, jogTimers,
                   stopTimers, statusQueue, presets, movement_threads, jogs,
                   movement_lock, calib, njog, stopped, pwAtStop,
                   disabledSince, inflight, staleJogs, unheldRelease,
                   monitor, failed, velocities, settings, mouse_servo,
                   offTimers, loop_at, ticks, config, accel, pi>>

Elb_move_up ==
    /\ variant = "elbow"
    /\ nevents < MaxEvents
    /\ nevents' = nevents + 1
    /\ LET new_target == FMax(FromInt(Elb_ELBOW_LIMITS[1]),
                              FSub(target_pw["ELBOW"],
                                   FromInt(settings.STEP_SIZE * 10)))
       IN  Elb_set_position_effect(new_target, "Moving Up")
    /\ UNCHANGED <<variant, current_pw, button_states, mainpc, jogTimers,
                   stopTimers, statusQueue, presets, movement_threads, jogs,
                   movement_lock, calib, njog, stopped, pwAtStop,
                   disabledSince, inflight, staleJogs, unheldRelease,
                   monitor, failed, velocities, settings, mouse_servo,
                   offTimers, loop_at, ticks, config, accel, pi>>

Elb_move_down ==
    /\ variant = "elbow"
    /\ nevents < MaxEvents
    /\ nevents' = nevents + 1
    /\ LET new_target == FMin(FromInt(Elb_ELBOW_LIMITS[2]),
                              FAdd(target_pw["ELBOW"],
                                   FromInt(settings.STEP_SIZE * 10)))
       IN  Elb_set_position_effect(new_target, "Moving Down")
    /\ UNCHANGED <<variant, current_pw, button_states, mainpc, jogTimers,
                   stopTimers, statusQueue, presets, movement_threads, jogs,
                   movement_lock, calib, njog, stopped, pwAtStop,
                   disabledSince, inflight, staleJogs, unheldRelease,
                   monitor, failed, velocities, settings, mouse_servo,
                   offTimers, loop_at, ticks, config, accel, pi>>

\* stop_tests(), the Stop Tests button
Elb_stop_tests ==
    /\ variant = "elbow"
    /\ nevents < MaxEvents
    /\ nevents' = nevents + 1
    /\ active_servos' = {}
    /\ hw' = [hw EXCEPT !["ELBOW"] = 0]
    /\ status' = "Tests Stopped"
    /\ UNCHANGED <<variant, current_pw, button_states, mainpc, jogTimers,
                   stopTimers, statusQueue, presets, movement_threads, jogs,
                   movement_lock, calib, njog, stopped, pwAtStop,
                   disabledSince, inflight, staleJogs, unheldRelease,
                   monitor, failed, target_pw, velocities, settings,
                   mouse_servo, offTimers, loop_at, ticks, config, accel, pi>>

\* after __init__: initialize_servos has put every joint at (min_pw + max_pw)
\* // 2 = 1500 and switched it off; in yes_but_no.py position_slider.set(1500)
\* has called slider_changed, which left the joint active
InitEase ==
    /\ variant \in EaseVariants
    /\ settings = DEFAULT_SETTINGS
    /\ current_pw = [j \in EaseJoints |-> FromInt(CENTER_PW)]
    /\ target_pw = [j \in EaseJoints |-> FromInt(CENTER_PW)]
    /\ velocities = [j \in EaseJoints |-> FZero]
    /\ active_servos = IF variant = "elbow" THEN {"ELBOW"} ELSE {}
    /\ hw = [j \in EaseJoints |-> IF variant = "elbow" THEN CENTER_PW ELSE 0]
    /\ mouse_servo = "None"
    /\ offTimers = [j \in EaseJoints |-> 0]
    /\ loop_at = 1
    /\ ticks = 0
    /\ InitBase

NextEase ==
    \/ \E name \in EaseJoints, focused \in BOOLEAN :
           \E value \in ScaleRange(Enh_SERVO_LIMITS(name)) :
               Enh_on_slider_change(name, value, focused)
    \/ \E name \in EaseJoints : Enh_mouse_control_start(name)
    \/ \E name \in EaseJoints, dx \in MouseOffsets, focused \in BOOLEAN :
           Enh_mouse_control_move(name, dx, focused)
    \/ \E name \in EaseJoints : Enh_mouse_control_end(name)
    \/ \E name \in EaseJoints : Enh_delayed_servo_off(name)
    \/ ticks < MaxTicks /\ Enh_smooth_movement_loop
    \/ \E value \in ScaleRange(Elb_ELBOW_LIMITS) : Elb_slider_changed(value)
    \/ \E position \in Elb_positions : Elb_set_position(position)
    \/ Elb_move_up
    \/ Elb_move_down
    \/ Elb_stop_tests
    \/ ticks < MaxTicks /\ Elb_movement_loop

SpecEase == InitEase /\ [][NextEase]_vars

\* the joint of limits (600, 2400) at 1500 with STEP_SIZE 10, after the slider
\* was dragged to 1800, with the focus (the joint is active) or without
InitConverge ==
    /\ variant \in {"enhance", "smoothener"}
    /\ settings = [DEFAULT_SETTINGS EXCEPT !.STEP_SIZE = 10]
    /\ current_pw = [j \in EaseJoints |-> FromInt(CENTER_PW)]
    /\ target_pw = [j \in EaseJoints |-> IF j = "BASE" THEN FromInt(1800)
                                         ELSE FromInt(CENTER_PW)]
    /\ velocities = [j \in EaseJoints |-> FZero]
    /\ active_servos \in {{}, {"BASE"}}
    /\ hw = [j \in EaseJoints |-> IF j \in active_servos THEN CENTER_PW ELSE 0]
    /\ mouse_servo = "None"
    /\ offTimers = [j \in EaseJoints |-> 0]
    /\ loop_at = 1
    /\ ticks = 0
    /\ InitBase

NextConverge == Enh_smooth_movement_loop

\* the loop thread never ends and sleeps SPEED_INTERVAL ms between two passes
SpecConverge == InitConverge /\ [][NextConverge]_vars /\ WF_vars(NextConverge)

(***************************************************************************)
(* Shutdown: Command.py cleanup, the handler of WM_DELETE_WINDOW.  It runs *)
(* in the Tk main thread, so no timer callback runs during it, while the   *)
(* preset threads go on.  After pi.stop() the window is destroyed and the  *)
(* process ends: the run has no further step.                              *)
(***************************************************************************)
\* cleanup up to its first set_servo_pulsewidth(pin, 0)
Cmd_cleanup ==
    /\ variant = "Command"
    /\ mainpc.pc = "idle"
    /\ button_states' = {}
    /\ hw' = Cmd_set_servo_pulsewidth(JointOrder[1], 0)
    /\ mainpc' = [IdleMain EXCEPT !.pc = "cleanup", !.k = 1]
    /\ unheldRelease' = FALSE
    /\ UNCHANGED <<variant, current_pw, status, jogTimers, stopTimers,
                   statusQueue, presets, movement_threads, active_servos,
                   jogs, movement_lock, calib, njog, nevents, stopped,
                   pwAtStop, disabledSince, inflight, staleJogs, monitor,
                   failed, target_pw, velocities, settings, mouse_servo,
                   offTimers, loop_at, ticks, config, accel, pi>>

\* cleanup after a time.sleep(0.1): the next pin written 0, or, after the
\* last sleep, self.pi.stop()
Cmd_cleanup_step ==
    /\ variant = "Command"
    /\ mainpc.pc = "cleanup"
    /\ IF mainpc.k < Last
       THEN /\ hw' = Cmd_set_servo_pulsewidth(JointOrder[mainpc.k + 1], 0)
            /\ mainpc' = [mainpc EXCEPT !.k = @ + 1]
       ELSE /\ mainpc' = [IdleMain EXCEPT !.pc = "closed"]
            /\ UNCHANGED hw
    /\ UNCHANGED <<variant, current_pw, button_states, status, jogTimers,
                   stopTimers, statusQueue, presets, movement_threads,
                   active_servos, jogs, movement_lock, calib, njog, nevents,
                   stopped, pwAtStop, disabledSince, inflight, staleJogs,
                   unheldRelease, monitor, failed, target_pw, velocities,
                   settings, mouse_servo, offTimers, loop_at, ticks, config,
                   accel, pi>>

NextShutdown ==
    \/ mainpc.pc # "closed" /\ NextCommand
    \/ Cmd_cleanup
    \/ Cmd_cleanup_step

\* Command.py under any commands until its window is closed
SpecShutdown == InitCommand /\ [][NextShutdown]_vars

(***************************************************************************)
(* test.py: the connection to the pigpio daemon.  __init__ calls           *)
(* connect_to_pigpio(max_attempts=3) and check_servo_connections, a timer  *)
(* callback, calls it again when the connection is lost.  Whether the      *)
(* daemon answers an attempt is the environment's choice.  enhanceSens.py  *)
(* has the same two functions.                                             *)
(***************************************************************************)
Test_max_attempts == 3

\* the state before construction: __init__ is at its call of
\* connect_to_pigpio, no attribute is set and no pin has been written
InitConnect ==
    /\ variant = "test"
    /\ current_pw = [j \in Joints |-> 0]
    /\ hw = [j \in Joints |-> 0]
    /\ button_states = {}
    /\ status = "Ready"
    /\ mainpc = [IdleMain EXCEPT !.pc = "init"]
    /\ jogTimers = [b \in Buttons |-> 0]
    /\ stopTimers = 0
    /\ statusQueue = 0
    /\ presets = [t \in ThreadIds |-> NoThread]
    /\ movement_threads = [b \in Buttons |-> "absent"]
    /\ jogs = [i \in JogIds |-> NoJog]
    /\ movement_lock = "free"
    /\ calib = NoCalib
    /\ staleJogs = {}
    /\ njog = 0
    /\ nevents = 0
    /\ stopped = FALSE
    /\ pwAtStop = [j \in Joints |-> CENTER_PW]
    /\ disabledSince = {}
    /\ inflight = {}
    /\ unheldRelease = FALSE
    /\ monitor = NoMonitor
    /\ failed = {}
    /\ active_servos = {}
    /\ target_pw = [j \in Joints |-> CENTER_PW]
    /\ velocities = [j \in Joints |-> 0]
    /\ settings = [STEP_SIZE |-> 0]
    /\ mouse_servo = "None"
    /\ offTimers = [j \in Joints |-> 0]
    /\ loop_at = 1
    /\ ticks = 0
    /\ config = Cmd_config
    /\ accel = NoAccel
    /\ pi = [NoConnect EXCEPT !.pc = "attempt", !.caller = "init",
                              !.h = FALSE, !.connected = FALSE]

\* connect_to_pigpio returns the handle h to its caller.  __init__ stores it
\* and, if it is not connected, shows the error and returns; otherwise it
\* sets current_pw, builds the window, runs initialize_servos (every joint
\* to the middle of its limits, then every pin off) and starts the timer of
\* check_servo_connections.  check_servo_connections stores it and goes on
\* to its pulse test.
Test_connect_return(h, made) ==
    /\ pi' = [pi EXCEPT !.pc = "none", !.h = h, !.connected = h,
                        !.made = made,
                        !.timer = IF pi.caller = "init" /\ h THEN 1 ELSE @]
    /\ IF pi.caller = "init"
       THEN /\ mainpc' = IF h THEN IdleMain ELSE [IdleMain EXCEPT !.pc = "failed"]
            /\ status' = IF h THEN "Ready" ELSE "Connection Error"
            /\ current_pw' = IF h
                             THEN [j \in Joints |->
                                     (Test_SERVO_LIMITS[j][1] +
                                      Test_SERVO_LIMITS[j][2]) \div 2]
                             ELSE current_pw
       ELSE /\ mainpc' = [IdleMain EXCEPT !.pc = "check", !.k = 1]
            /\ status' = IF h THEN "Reconnected to pigpio" ELSE status
            /\ UNCHANGED current_pw

\* one pass of the loop of connect_to_pigpio up to its return or its sleep:
\* pi = pigpio.pi(), connected or not
Test_connect_attempt(ok) ==
    /\ variant = "test"
    /\ pi.pc = "attempt"
    /\ IF ok
       THEN Test_connect_return(TRUE, pi.made + 1)
       ELSE /\ pi' = [pi EXCEPT !.pc = "sleep", !.h = FALSE, !.made = @ + 1]
            /\ UNCHANGED <<mainpc, status, current_pw>>
    /\ UNCHANGED <<variant, hw, button_states, jogTimers, stopTimers,
                   statusQueue, presets, movement_threads, active_servos,
                   jogs, movement_lock, calib, njog, nevents, stopped,
                   pwAtStop, disabledSince, inflight, staleJogs,
                   unheldRelease, monitor, failed, target_pw, velocities,
                   settings, mouse_servo, offTimers, loop_at, ticks, config,
                   accel>>

\* connect_to_pigpio if its loop made one pass more than max_attempts
Test_connect_retry_once_more ==
    /\ variant = "test"
    /\ pi.pc = "sleep"
    /\ IF pi.attempt + 1 <= Test_max_attempts
       THEN /\ pi' = [pi EXCEPT !.pc = "attempt", !.attempt = @ + 1]
            /\ UNCHANGED <<mainpc, status, current_pw>>
       ELSE Test_connect_return(pi.h, pi.made)
    /\ UNCHANGED <<variant, hw, button_states, jogTimers, stopTimers,
                   statusQueue, presets, movement_threads, active_servos,
                   jogs, movement_lock, calib, njog, nevents, stopped,
                   pwAtStop, disabledSince, inflight, staleJogs,
                   unheldRelease, monitor, failed, target_pw, velocities,
                   settings, mouse_servo, offTimers, loop_at, ticks, config,
                   accel>>

\* after time.sleep(1): the next pass of the loop or, after max_attempts
\* passes, "return pi", the handle of the last attempt
Test_connect_retry ==
    /\ variant = "test"
    /\ pi.pc = "sleep"
    /\ IF pi.attempt + 1 < Test_max_attempts
       THEN /\ pi' = [pi EXCEPT !.pc = "attempt", !.attempt = @ + 1]
            /\ UNCHANGED <<mainpc, status, current_pw>>
       ELSE Test_connect_return(pi.h, pi.made)
    /\ UNCHANGED <<variant, hw, button_states, jogTimers, stopTimers,
                   statusQueue, presets, movement_threads, active_servos,
                   jogs, movement_lock, calib, njog, nevents, stopped,
                   pwAtStop, disabledSince, inflight, staleJogs,
                   unheldRelease, monitor, failed, target_pw, velocities,
                   settings, mouse_servo, offTimers, loop_at, ticks, config,
                   accel>>

\* the connection to the daemon is lost while no handler runs
Test_connection_lost ==
    /\ variant = "test"
    /\ mainpc.pc = "idle"
    /\ pi.pc = "none"
    /\ pi.connected
    /\ pi' = [pi EXCEPT !.connected = FALSE]
    /\ UNCHANGED <<variant, current_pw, hw, button_states, status, mainpc,
                   jogTimers, stopTimers, statusQueue, presets,
                   movement_threads, active_servos, jogs, movement_lock,
                   calib, njog, nevents, stopped, pwAtStop, disabledSince,
                   inflight, staleJogs, unheldRelease, monitor, failed,
                   target_pw, velocities, settings, mouse_servo, offTimers,
                   loop_at, ticks, config, accel>>

\* check_servo_connections, the timer callback, up to its call of
\* connect_to_pigpio() (max_attempts at its default, 3) or, when connected,
\* up to its pulse test
Test_check_servo_connections ==
    /\ variant = "test"
    /\ mainpc.pc = "idle"
    /\ pi.timer > 0
    /\ nevents < MaxChecks
    /\ nevents' = nevents + 1
    /\ IF pi.connected
       THEN /\ pi' = [pi EXCEPT !.timer = @ - 1, !.problems = {}]
            /\ mainpc' = [IdleMain EXCEPT !.pc = "check", !.k = 1]
            /\ UNCHANGED status
       ELSE /\ pi' = [pi EXCEPT !.timer = @ - 1, !.problems = {},
                                !.pc = "attempt", !.attempt = 0, !.made = 0,
                                !.caller = "check"]
            /\ mainpc' = [IdleMain EXCEPT !.pc = "connect"]
            /\ status' = "ERROR: Lost connection to pigpio!"
    /\ UNCHANGED <<variant, current_pw, hw, button_states, jogTimers,
                   stopTimers, statusQueue, presets, movement_threads,
                   active_servos, jogs, movement_lock, calib, njog, stopped,
                   pwAtStop, disabledSince, inflight, staleJogs,
                   unheldRelease, monitor, failed, target_pw, velocities,
                   settings, mouse_servo, offTimers, loop_at, ticks, config,
                   accel>>

\* the pulse test of one servo: set_servo_pulsewidth(pin, current), or the
\* exception it raises on a handle that is not connected.  mainpc.new is the
\* place in the test of servo mainpc.k: 0 before the first write, 1 in the
\* sleep after it, 2 in the except clause.
Test_check_pulse_on ==
    /\ variant = "test"
    /\ mainpc.pc = "check"
    /\ mainpc.new = 0
    /\ IF pi.connected
       THEN /\ hw' = [hw EXCEPT ![JointOrder[mainpc.k]] =
                                    current_pw[JointOrder[mainpc.k]]]
            /\ mainpc' = [mainpc EXCEPT !.new = 1]
            /\ UNCHANGED pi
       ELSE /\ pi' = [pi EXCEPT !.problems = @ \cup {JointOrder[mainpc.k]}]
            /\ mainpc' = [mainpc EXCEPT !.new = 2]
            /\ UNCHANGED hw
    /\ UNCHANGED <<variant, current_pw, button_states, status, jogTimers,
                   stopTimers, statusQueue, presets, movement_threads,
                   active_servos, jogs, movement_lock, calib, njog, nevents,
                   stopped, pwAtStop, disabledSince, inflight, staleJogs,
                   unheldRelease, monitor, failed, target_pw, velocities,
                   settings, mouse_servo, offTimers, loop_at, ticks, config,
                   accel>>

\* after time.sleep(0.1), set_servo_pulsewidth(pin, 0); then the next servo
\* or the end of the handler: the warning and root.after(30000, ...)
Test_check_pulse_off ==
    /\ variant = "test"
    /\ mainpc.pc = "check"
    /\ mainpc.new \in {1, 2}
    /\ hw' = IF mainpc.new = 1 THEN [hw EXCEPT ![JointOrder[mainpc.k]] = 0]
             ELSE hw
    /\ IF mainpc.k < Last
       THEN /\ mainpc' = [mainpc EXCEPT !.k = @ + 1, !.new = 0]
            /\ UNCHANGED <<pi, status>>
       ELSE /\ mainpc' = IdleMain
            /\ pi' = [pi EXCEPT !.timer = @ + 1]
            /\ status' = IF pi.problems # {} THEN "WARNING: Issues"
                         ELSE status
    /\ UNCHANGED <<variant, current_pw, button_states, jogTimers,
                   stopTimers, statusQueue, presets, movement_threads,
                   active_servos, jogs, movement_lock, calib, njog, nevents,
                   stopped, pwAtStop, disabledSince, inflight, staleJogs,
                   unheldRelease, monitor, failed, target_pw, velocities,
                   settings, mouse_servo, offTimers, loop_at, ticks, config,
                   accel>>

NextConnect ==
    \/ \E ok \in BOOLEAN : Test_connect_attempt(ok)
    \/ Test_connect_retry
    \/ Test_connection_lost
    \/ Test_check_servo_connections
    \/ Test_check_pulse_on
    \/ Test_check_pulse_off

\* test.py from its construction on, with nothing but the connection checks
SpecConnect == InitConnect /\ [][NextConnect]_vars

\* the same, where a call of connect_to_pigpio that can take a step does
FairConnect ==
    SpecConnect /\ WF_vars(\E ok \in BOOLEAN : Test_connect_attempt(ok))
                /\ WF_vars(Test_connect_retry)

(***************************************************************************)
(* The configuration as an input: Command.py started with class attributes *)
(* SERVO_PINS and SERVO_LIMITS that may be invalid.                        *)
(***************************************************************************)
\* the configuration as written, one with inverted limits, one with a
\* negative lower limit and one where two joints share a channel
Configs ==
    {Cmd_config,
     [Cmd_config EXCEPT !.limits["GRIPPER"] = <<2000, 1000>>],
     [Cmd_config EXCEPT !.limits["BASE"] = <<-500, 2500>>],
     [Cmd_config EXCEPT !.pins["GRIPPER"] = 17]}

\* the state before construction: no attribute is set, no pin written
InitConfig ==
    /\ variant = "Command"
    /\ config \in Configs
    /\ current_pw = [j \in Joints |-> 0]
    /\ hw = [j \in Joints |-> 0]
    /\ button_states = {}
    /\ status = "Ready"
    /\ mainpc = [IdleMain EXCEPT !.pc = "init"]
    /\ jogTimers = [b \in Buttons |-> 0]
    /\ stopTimers = 0
    /\ statusQueue = 0
    /\ presets = [t \in ThreadIds |-> NoThread]
    /\ movement_threads = [b \in Buttons |-> "absent"]
    /\ jogs = [i \in JogIds |-> NoJog]
    /\ movement_lock = "free"
    /\ calib = NoCalib
    /\ staleJogs = {}
    /\ njog = 0
    /\ nevents = 0
    /\ stopped = FALSE
    /\ pwAtStop = [j \in Joints |-> CENTER_PW]
    /\ disabledSince = {}
    /\ inflight = {}
    /\ unheldRelease = FALSE
    /\ monitor = NoMonitor
    /\ failed = {}
    /\ active_servos = {}
    /\ target_pw = [j \in Joints |-> CENTER_PW]
    /\ velocities = [j \in Joints |-> 0]
    /\ settings = [STEP_SIZE |-> 0]
    /\ mouse_servo = "None"
    /\ offTimers = [j \in Joints |-> 0]
    /\ loop_at = 1
    /\ ticks = 0
    /\ accel = NoAccel
    /\ pi = NoConnect

\* __init__ with the daemon connected: current_pw is 1500 for every name of
\* SERVO_PINS, every pin is written its joint's current_pw, the window is
\* built and the main loop waits for commands
Cmd_init ==
    /\ variant = "Command"
    /\ mainpc.pc = "init"
    /\ current_pw' = [j \in Joints |-> CENTER_PW]
    /\ hw' = [j \in Joints |-> CENTER_PW]
    /\ button_states' = {}
    /\ status' = "Ready"
    /\ mainpc' = IdleMain
    /\ UNCHANGED <<variant, jogTimers, stopTimers, statusQueue, presets,
                   movement_threads, active_servos, jogs, movement_lock,
                   calib, njog, nevents, stopped, pwAtStop, disabledSince,
                   inflight, staleJogs, unheldRelease, monitor, failed,
                   target_pw, velocities, settings, mouse_servo, offTimers,
                   loop_at, ticks, config, accel, pi>>

NextConfig ==
    \/ Cmd_init
    \/ \E b \in Buttons : Cmd_button_press(b)
    \/ \E b \in Buttons : Cmd_jog_timer(b)
    \/ Cmd_jog_store
    \/ Cmd_jog_write
    \/ \E b \in Buttons : Cmd_button_release(b)

\* Command.py from its construction on, under jog commands
SpecConfig == InitConfig /\ [][NextConfig]_vars

(***************************************************************************)
(* commandImproved.py: _move_with_acceleration(servo_name, target_pw) as a *)
(* function of the joint's position and the target.                        *)
(***************************************************************************)
Imp_ACCEL_STEPS == 5

\* [x] * n: the list of n copies of x, empty when n is not positive
Repeated(x, n) == SubSeq([i \in 1..Max(n, 1) |-> x], 1, n)

\* sum(increments[lo..hi])
RECURSIVE SumBetween(_, _, _)
SumBetween(s, lo, hi) ==
    IF lo > hi THEN 0
    ELSE IF lo = hi THEN s[lo]
    ELSE SumBetween(s, lo, (lo + hi) \div 2)
         + SumBetween(s, (lo + hi) \div 2 + 1, hi)

\* the three phases and the adjustment for the total distance
Imp_phases(total_move, direction, total_steps, accel_steps) ==
    LET acc       == SubSeq([i \in 1..accel_steps |-> direction * i],
                            1, accel_steps)
        mid_steps == total_steps - 2 * accel_steps
        decel     == SubSeq([i \in 1..accel_steps |->
                                direction * (accel_steps - (i - 1))],
                            1, accel_steps)
        combined  == acc \o Repeated(direction * accel_steps,
                                       Max(0, mid_steps)) \o decel
        adjustment == total_move - SumBetween(combined, 1, Len(combined))
    IN  IF adjustment = 0 THEN combined
        ELSE IF mid_steps > 0
        THEN acc \o Repeated(direction * accel_steps, mid_steps + adjustment)
                   \o decel
        ELSE [combined EXCEPT ![Len(combined)] = @ + adjustment]

\* increments of _move_with_acceleration for a move that is not 0
Imp_increments(current, target) ==
    LET total_move == target - current
        direction  == IF total_move > 0 THEN 1 ELSE -1
        total_steps == Abs(total_move)
    IN  IF total_steps <= 10 THEN Repeated(direction, total_steps)
        ELSE Imp_phases(total_move, direction, total_steps,
                        Min(Imp_ACCEL_STEPS, total_steps \div 3))

\* positions and targets the function is called with: inside the limits of
\* both joints, 5 to 500 apart
AccelInputs == {1000, 1489, 1495, 1500, 1511, 1800, 2000}

InitAccel ==
    /\ variant = "improved"
    /\ current_pw \in [Joints -> AccelInputs]
    /\ hw = current_pw
    /\ InitRest

\* the position the pass for increments[at] writes: current_pos += increment,
\* then max(min_pw, min(current_pos, max_pw))
Imp_accel_pos(a, at, from) ==
    Clamp(from + a.increments[at], Imp_SERVO_LIMITS[a.name])

\* the call, up to its return when the joint is at the target or to the
\* first pass of its loop
Imp_move_with_acceleration(servo_name, target) ==
    /\ variant = "improved"
    /\ accel.st = "none"
    /\ LET current == current_pw[servo_name]
           a == [NoAccel EXCEPT !.name = servo_name, !.target = target,
                                !.current = current]
       IN  IF target = current
           THEN accel' = [a EXCEPT !.st = "returned"]
           ELSE LET b == [a EXCEPT !.increments =
                                       Imp_increments(current, target)]
                IN  accel' = IF b.increments = <<>>
                             THEN [b EXCEPT !.st = "returned"]
                             ELSE [b EXCEPT !.st = "write", !.at = 1,
                                            !.pos = Imp_accel_pos(b, 1, current)]
    /\ UNCHANGED <<variant, current_pw, hw, button_states, status, mainpc,
                   jogTimers, stopTimers, statusQueue, presets,
                   movement_threads, active_servos, jogs, movement_lock,
                   calib, njog, nevents, stopped, pwAtStop, disabledSince,
                   inflight, staleJogs, unheldRelease, monitor, failed,
                   target_pw, velocities, settings, mouse_servo, offTimers,
                   loop_at, ticks, config, pi>>

\* self.pi.set_servo_pulsewidth(pin, current_pos)
Imp_accel_write ==
    /\ variant = "improved"
    /\ accel.st = "write"
    /\ hw' = [hw EXCEPT ![accel.name] = accel.pos]
    /\ accel' = [accel EXCEPT !.st = "store"]
    /\ UNCHANGED <<variant, current_pw, button_states, status, mainpc,
                   jogTimers, stopTimers, statusQueue, presets,
                   movement_threads, active_servos, jogs, movement_lock,
                   calib, njog, nevents, stopped, pwAtStop, disabledSince,
                   inflight, staleJogs, unheldRelease, monitor, failed,
                   target_pw, velocities, settings, mouse_servo, offTimers,
                   loop_at, ticks, config, pi>>

\* self.current_pw[servo_name] = current_pos, then _check_movement_frequency:
\* it raises AttributeError when its attributes are not set, which ends the
\* call; else the delay is slept and the loop goes on or the call returns
Imp_accel_store ==
    /\ variant = "improved"
    /\ accel.st = "store"
    /\ current_pw' = [current_pw EXCEPT ![accel.name] = accel.pos]
    /\ IF ~monitor.set
       THEN /\ accel' = [accel EXCEPT !.st = "raised"]
            /\ UNCHANGED monitor
       ELSE /\ \E rapid \in BOOLEAN :
                   monitor' = Imp_check_movement_frequency(monitor, rapid)
            /\ accel' = IF accel.at < Len(accel.increments)
                        THEN [accel EXCEPT !.st = "write", !.at = @ + 1,
                                 !.pos = Imp_accel_pos(accel, accel.at + 1,
                                                       accel.pos)]
                        ELSE [accel EXCEPT !.st = "returned"]
    /\ UNCHANGED <<variant, hw, button_states, status, mainpc, jogTimers,
                   stopTimers, statusQueue, presets, movement_threads,
                   active_servos, jogs, movement_lock, calib, njog, nevents,
                   stopped, pwAtStop, disabledSince, inflight, staleJogs,
                   unheldRelease, failed, target_pw, velocities, settings,
                   mouse_servo, offTimers, loop_at, ticks, config, pi>>

NextAccel ==
    \/ \E j \in Joints, t \in AccelInputs : Imp_move_with_acceleration(j, t)
    \/ Imp_accel_write
    \/ Imp_accel_store

\* one call of _move_with_acceleration from every position to every target
SpecAccel == InitAccel /\ [][NextAccel]_vars

(***************************************************************************)
(* gripperCon.py: one servo, the gripper, jogged by the B3 buttons.  The   *)
(* handlers run on the Tk main thread, one at a time.  A button of Buttons *)
(* stands for a B3 button of that direction.                               *)
(***************************************************************************)
Grip_OPEN_PW == 2000
Grip_CLOSED_PW == 1000
Grip_SERVO_STEP == 20

\* move_servo_continuously(button_id): the guard on button_states, the new
\* pulse width, the store and the write when it changed, and root.after
Grip_move_servo_continuously(b, held, timers) ==
    IF b \in held
    THEN LET cur == current_pw["GRIPPER"]
             new == JogTarget(cur, b[2], Grip_SERVO_STEP,
                              <<Grip_CLOSED_PW, Grip_OPEN_PW>>)
         IN  /\ njog' = njog + 1
             /\ current_pw' = [current_pw EXCEPT !["GRIPPER"] = new]
             /\ hw' = IF new # cur THEN [hw EXCEPT !["GRIPPER"] = new] ELSE hw
             /\ jogTimers' = [timers EXCEPT ![b] = @ + 1]
    ELSE /\ jogTimers' = timers
         /\ UNCHANGED <<njog, current_pw, hw>>

\* button_press(button_id) of a B3 button
Grip_button_press(b) ==
    /\ variant = "gripper"
    /\ nevents < MaxEvents
    /\ njog < MaxJogSteps
    /\ nevents' = nevents + 1
    /\ button_states' = button_states \cup {b}
    /\ status' = "Activated"
    /\ Grip_move_servo_continuously(b, button_states', jogTimers)
    /\ UNCHANGED <<variant, mainpc, stopTimers, statusQueue, presets,
                   movement_threads, active_servos, jogs, movement_lock,
                   calib, stopped, pwAtStop, disabledSince, inflight,
                   staleJogs, unheldRelease, monitor, failed, target_pw,
                   velocities, settings, mouse_servo, offTimers, loop_at,
                   ticks, config, accel, pi>>

\* the root.after callback of move_servo_continuously
Grip_jog_timer(b) ==
    /\ variant = "gripper"
    /\ jogTimers[b] > 0
    /\ b \in button_states => njog < MaxJogSteps
    /\ Grip_move_servo_continuously(b, button_states,
                                    [jogTimers EXCEPT ![b] = @ - 1])
    /\ UNCHANGED <<variant, button_states, status, mainpc, stopTimers,
                   statusQueue, presets, movement_threads, active_servos,
                   jogs, movement_lock, calib, nevents, stopped, pwAtStop,
                   disabledSince, inflight, staleJogs, unheldRelease,
                   monitor, failed, target_pw, velocities, settings,
                   mouse_servo, offTimers, loop_at, ticks, config, accel, pi>>

\* button_release(button_id) of a button that is held
Grip_button_release(b) ==
    /\ variant = "gripper"
    /\ b \in button_states
    /\ button_states' = button_states \ {b}
    /\ status' = IF button_states' = {} THEN "No servo activated" ELSE status
    /\ UNCHANGED <<variant, current_pw, hw, mainpc, jogTimers, stopTimers,
                   statusQueue, presets, movement_threads, active_servos,
                   jogs, movement_lock, calib, njog, nevents, stopped,
                   pwAtStop, disabledSince, inflight, staleJogs,
                   unheldRelease, monitor, failed, target_pw, velocities,
                   settings, mouse_servo, offTimers, loop_at, ticks, config,
                   accel, pi>>

(***************************************************************************)
(* Jogging near the limits: Command.py, test.py and gripperCon.py with the *)
(* jogged servo at the centre, one step from a limit, or at a limit (the   *)
(* positions jog steps from the centre lead to).                           *)
(***************************************************************************)
\* the positions of the jogged servo, given its limits and its step
JogStarts(lim, step) ==
    {lim[1], lim[1] + step, CENTER_PW, lim[2] - step, lim[2]}

InitJogLimit ==
    /\ InitRest
    /\ \/ /\ variant = "Command"
          /\ \E x \in JogStarts(Cmd_SERVO_LIMITS["BASE"], Cmd_DEFAULT_STEP) :
                 current_pw = [j \in Joints |->
                                  IF j = "BASE" THEN x ELSE CENTER_PW]
          /\ hw = current_pw
       \/ /\ variant = "test"
          /\ \E x \in JogStarts(Test_SERVO_LIMITS["BASE"],
                                Test_STEP_SIZES["BASE"]) :
                 current_pw = [j \in Joints |->
                                  IF j = "BASE" THEN x ELSE CENTER_PW]
          /\ hw = [j \in Joints |-> 0]
       \/ /\ variant = "gripper"
          /\ \E x \in JogStarts(<<Grip_CLOSED_PW, Grip_OPEN_PW>>,
                                Grip_SERVO_STEP) :
                 current_pw = [j \in Joints |->
                                  IF j = "GRIPPER" THEN x ELSE 0]
          /\ hw = current_pw

NextJogLimit ==
    \/ \E b \in Buttons : Cmd_button_press(b)
    \/ \E b \in Buttons : Cmd_jog_timer(b)
    \/ Cmd_jog_store
    \/ Cmd_jog_write
    \/ \E b \in Buttons : Cmd_button_release(b)
    \/ \E b \in Buttons, i \in JogIds : Test_button_press(b, i)
    \/ \E i \in JogIds : Test_jog_loop(i)
    \/ \E i \in JogIds : Test_jog_store(i)
    \/ \E i \in JogIds : Test_jog_write(i)
    \/ \E b \in Buttons : Test_button_release(b)
    \/ \E b \in Buttons : Grip_button_press(b)
    \/ \E b \in Buttons : Grip_jog_timer(b)
    \/ \E b \in Buttons : Grip_button_release(b)

\* the three programs under jog commands, from positions at and near the
\* limits
SpecJogLimit == InitJogLimit /\ [][NextJogLimit]_vars

(***************************************************************************)
(* testiny.py: the arm with the shoulder restricted to 40..60 degrees.     *)
(* Followed here: BASE and SHOULDER, the buttons of SHOULDER, the presets. *)
(* An angle is held in hundredths of a degree.  SHOULDER_PW_PER_DEGREE is  *)
(* 2000 / 180, so (pw - 500) / SHOULDER_PW_PER_DEGREE is 9 * (pw - 500)    *)
(* hundredths and int(500 + angle * SHOULDER_PW_PER_DEGREE) is 500 plus    *)
(* the whole part of angle * 2000 / 180; the doubles of the source give    *)
(* these integers for every pulse width from 500 to 2500 and both          *)
(* directions of a jog step.                                               *)
(***************************************************************************)
Tiny_JointOrder == <<"BASE", "SHOULDER">>

Tiny_Joints == {"BASE", "SHOULDER"}

Tiny_Buttons == {<<"SHOULDER", "CCW">>, <<"SHOULDER", "CW">>}

Tiny_SERVO_LIMITS == [j \in Tiny_Joints |-> <<500, 2500>>]

Tiny_SHOULDER_MIN_ANGLE == 40
Tiny_SHOULDER_MAX_ANGLE == 60
Tiny_DEFAULT_STEP == 20
Tiny_SHOULDER_MIN_PW == 500
Tiny_SHOULDER_MAX_PW == 2500

\* the limits of the shoulder's angle, in hundredths
Tiny_angle_limits == <<Tiny_SHOULDER_MIN_ANGLE * 100, Tiny_SHOULDER_MAX_ANGLE * 100>>

\* angle_to_pw('SHOULDER', angle): the angle clamped, then
\* int(SHOULDER_MIN_PW + angle * SHOULDER_PW_PER_DEGREE)
Tiny_angle_to_pw(angle) ==
    Tiny_SHOULDER_MIN_PW
    + (Clamp(angle, Tiny_angle_limits)
       * (Tiny_SHOULDER_MAX_PW - Tiny_SHOULDER_MIN_PW)) \div (180 * 100)

\* pw_to_angle('SHOULDER', pw): (pw - SHOULDER_MIN_PW) / SHOULDER_PW_PER_DEGREE,
\* clamped
Tiny_pw_to_angle(pw) ==
    Clamp(((pw - Tiny_SHOULDER_MIN_PW) * 180 * 100)
              \div (Tiny_SHOULDER_MAX_PW - Tiny_SHOULDER_MIN_PW),
          Tiny_angle_limits)

\* a jog step of a twentieth of a degree instead of half a degree
Tiny_new_angle_fine(current_angle, direction) ==
    IF direction = "CCW" THEN Min(current_angle + 5, Tiny_angle_limits[2])
    ELSE Max(current_angle - 5, Tiny_angle_limits[1])

\* new_angle of move_servo_continuously: half a degree up, at most
\* SHOULDER_MAX_ANGLE, or down, at least SHOULDER_MIN_ANGLE
Tiny_new_angle(current_angle, direction) ==
    IF direction = "CCW" THEN Min(current_angle + 50, Tiny_angle_limits[2])
    ELSE Max(current_angle - 50, Tiny_angle_limits[1])

\* new_pw of move_servo_continuously
Tiny_jog_new_pw(name, current, direction) ==
    IF name = "SHOULDER"
    THEN Tiny_angle_to_pw(Tiny_new_angle(Tiny_pw_to_angle(current), direction))
    ELSE JogTarget(current, direction, Tiny_DEFAULT_STEP, Tiny_SERVO_LIMITS[name])

\* the vectors of home_position, pick_position, place_position, rest_position
Tiny_preset_positions(p) ==
    CASE p = "home"  -> [j \in Tiny_Joints |->
                            IF j = "BASE" THEN 1500 ELSE Tiny_angle_to_pw(5000)]
      [] p = "pick"  -> [j \in Tiny_Joints |->
                            IF j = "BASE" THEN 1800 ELSE Tiny_angle_to_pw(4000)]
      [] p = "place" -> [j \in Tiny_Joints |->
                            IF j = "BASE" THEN 1200 ELSE Tiny_angle_to_pw(6000)]
      [] p = "rest"  -> [j \in Tiny_Joints |->
                            IF j = "BASE" THEN 1500 ELSE Tiny_angle_to_pw(4500)]

Tiny_PresetNames == {"home", "pick", "place", "rest"}

\* verify_initialized
Tiny_verify_initialized == pi.h /\ pi.connected

\* __init__: self.pi = None, self.current_pw = {}, no pin pulsed
InitTiny ==
    /\ variant = "testiny"
    /\ config = Cmd_config
    /\ current_pw = [j \in {} |-> 0]
    /\ hw = [j \in Tiny_Joints |-> 0]
    /\ button_states = {}
    /\ status = "Not initialized"
    /\ mainpc = IdleMain
    /\ jogTimers = [b \in Tiny_Buttons |-> 0]
    /\ stopTimers = 0
    /\ statusQueue = 0
    /\ presets = [t \in ThreadIds |-> NoThread]
    /\ movement_threads = [b \in Buttons |-> "absent"]
    /\ jogs = [i \in JogIds |-> NoJog]
    /\ movement_lock = "free"
    /\ calib = NoCalib
    /\ staleJogs = {}
    /\ njog = 0
    /\ nevents = 0
    /\ stopped = FALSE
    /\ pwAtStop = [j \in Joints |-> CENTER_PW]
    /\ disabledSince = {}
    /\ inflight = {}
    /\ unheldRelease = FALSE
    /\ monitor = NoMonitor
    /\ failed = {}
    /\ active_servos = {}
    /\ target_pw = [j \in Joints |-> CENTER_PW]
    /\ velocities = [j \in Joints |-> 0]
    /\ settings = [STEP_SIZE |-> 0]
    /\ mouse_servo = "None"
    /\ offTimers = [j \in Joints |-> 0]
    /\ loop_at = 1
    /\ ticks = 0
    /\ accel = NoAccel
    /\ pi = [NoConnect EXCEPT !.h = FALSE, !.connected = FALSE]

\* initialize_hardware, the command of the INITIALIZE HARDWARE button; ok:
\* the daemon answers.  The button pressed again on initialized hardware
\* counts as a command of the run.
Tiny_initialize_hardware(ok) ==
    /\ variant = "testiny"
    /\ mainpc.pc = "idle"
    /\ IF Tiny_verify_initialized
       THEN /\ nevents < MaxEvents
            /\ nevents' = nevents + 1
       ELSE nevents' = nevents
    /\ pi' = [pi EXCEPT !.h = TRUE, !.connected = ok]
    /\ IF ok
       THEN /\ current_pw' =
                   [j \in Tiny_Joints |->
                       IF j = "SHOULDER"
                       THEN Tiny_angle_to_pw(((Tiny_SHOULDER_MIN_ANGLE
                                               + Tiny_SHOULDER_MAX_ANGLE) * 100)
                                             \div 2)
                       ELSE CENTER_PW]
            /\ hw' = current_pw'
            /\ status' = "Hardware initialized"
       ELSE UNCHANGED <<current_pw, hw, status>>
    /\ UNCHANGED <<variant, button_states, mainpc, jogTimers, stopTimers,
                   statusQueue, presets, movement_threads, active_servos,
                   jogs, movement_lock, calib, njog, stopped, pwAtStop,
                   disabledSince, inflight, staleJogs, unheldRelease,
                   monitor, failed, target_pw, velocities, settings,
                   mouse_servo, offTimers, loop_at, ticks, config, accel>>

\* move_servo_continuously(button_id) up to its write of self.current_pw
Tiny_move_servo_continuously(b, held, timers) ==
    IF Tiny_verify_initialized /\ b \in held
    THEN LET cur == current_pw[b[1]]
             new == Tiny_jog_new_pw(b[1], cur, b[2])
         IN  /\ njog' = njog + 1
             /\ IF new # cur
                THEN /\ mainpc' = [pc |-> "jog_store", k |-> 0, b |-> b, new |-> new]
                     /\ jogTimers' = timers
                ELSE /\ mainpc' = IdleMain
                     /\ jogTimers' = [timers EXCEPT ![b] = @ + 1]
    ELSE /\ mainpc' = IdleMain
         /\ jogTimers' = timers
         /\ njog' = njog

\* button_press(button_id) without "if not self.verify_initialized(): return"
Tiny_button_press_unverified(b) ==
    /\ variant = "testiny"
    /\ mainpc.pc = "idle"
    /\ nevents < MaxEvents
    /\ njog < MaxJogSteps
    /\ nevents' = nevents + 1
    /\ button_states' = button_states \cup {b}
    /\ status' = "Moving"
    /\ Tiny_move_servo_continuously(b, button_states', jogTimers)
    /\ UNCHANGED <<variant, current_pw, hw, stopTimers, statusQueue,
                   presets, movement_threads, active_servos, jogs,
                   movement_lock, calib, stopped, pwAtStop, disabledSince,
                   inflight, staleJogs, unheldRelease, monitor, failed,
                   target_pw, velocities, settings, mouse_servo, offTimers,
                   loop_at, ticks, config, accel, pi>>

\* button_press(button_id); verify_initialized sets the status when it fails
Tiny_button_press(b) ==
    /\ variant = "testiny"
    /\ mainpc.pc = "idle"
    /\ IF Tiny_verify_initialized
       THEN /\ nevents < MaxEvents
            /\ njog < MaxJogSteps
            /\ nevents' = nevents + 1
            /\ button_states' = button_states \cup {b}
            /\ status' = "Moving"
            /\ Tiny_move_servo_continuously(b, button_states', jogTimers)
       ELSE /\ status' = "Hardware not initialized!"
            /\ UNCHANGED <<nevents, button_states, mainpc, jogTimers, njog>>
    /\ UNCHANGED <<variant, current_pw, hw, stopTimers, statusQueue,
                   presets, movement_threads, active_servos, jogs,
                   movement_lock, calib, stopped, pwAtStop, disabledSince,
                   inflight, staleJogs, unheldRelease, monitor, failed,
                   target_pw, velocities, settings, mouse_servo, offTimers,
                   loop_at, ticks, config, accel, pi>>

\* the root.after callback of move_servo_continuously
Tiny_jog_timer(b) ==
    /\ variant = "testiny"
    /\ mainpc.pc = "idle"
    /\ jogTimers[b] > 0
    /\ (Tiny_verify_initialized /\ b \in button_states) => njog < MaxJogSteps
    /\ Tiny_move_servo_continuously(b, button_states,
                                    [jogTimers EXCEPT ![b] = @ - 1])
    /\ UNCHANGED <<variant, current_pw, hw, button_states, status,
                   stopTimers, statusQueue, presets, movement_threads,
                   active_servos, jogs, movement_lock, calib, nevents,
                   stopped, pwAtStop, disabledSince, inflight, staleJogs,
                   unheldRelease, monitor, failed, target_pw, velocities,
                   settings, mouse_servo, offTimers, loop_at, ticks, config,
                   accel, pi>>

\* self.current_pw[servo_name] = new_pw
Tiny_jog_store ==
    /\ variant = "testiny"
    /\ mainpc.pc = "jog_store"
    /\ current_pw' = [current_pw EXCEPT ![mainpc.b[1]] = mainpc.new]
    /\ mainpc' = [mainpc EXCEPT !.pc = "jog_write"]
    /\ UNCHANGED <<variant, hw, button_states, status, jogTimers,
                   stopTimers, statusQueue, presets, movement_threads,
                   active_servos, jogs, movement_lock, calib, njog, nevents,
                   stopped, pwAtStop, disabledSince, inflight, staleJogs,
                   unheldRelease, monitor, failed, target_pw, velocities,
                   settings, mouse_servo, offTimers, loop_at, ticks, config,
                   accel, pi>>

\* self.pi.set_servo_pulsewidth(pin, new_pw), then root.after(DEFAULT_INTERVAL, ...)
Tiny_jog_write ==
    /\ variant = "testiny"
    /\ mainpc.pc = "jog_write"
    /\ hw' = [hw EXCEPT ![mainpc.b[1]] = mainpc.new]
    /\ jogTimers' = [jogTimers EXCEPT ![mainpc.b] = @ + 1]
    /\ mainpc' = IdleMain
    /\ UNCHANGED <<variant, current_pw, button_states, status, stopTimers,
                   statusQueue, presets, movement_threads, active_servos,
                   jogs, movement_lock, calib, njog, nevents, stopped,
                   pwAtStop, disabledSince, inflight, staleJogs,
                   unheldRelease, monitor, failed, target_pw, velocities,
                   settings, mouse_servo, offTimers, loop_at, ticks, config,
                   accel, pi>>

\* button_release(button_id): of a button that is held, or on hardware that
\* is not initialized
Tiny_button_release(b) ==
    /\ variant = "testiny"
    /\ mainpc.pc = "idle"
    /\ IF Tiny_verify_initialized
       THEN /\ b \in button_states
            /\ button_states' = button_states \ {b}
            /\ hw' = [hw EXCEPT ![b[1]] = current_pw[b[1]]]
            /\ status' = IF button_states' = {} THEN "Ready" ELSE status
       ELSE /\ status' = "Hardware not initialized!"
            /\ UNCHANGED <<button_states, hw>>
    /\ UNCHANGED <<variant, current_pw, mainpc, jogTimers, stopTimers,
                   statusQueue, presets, movement_threads, active_servos,
                   jogs, movement_lock, calib, njog, nevents, stopped,
                   pwAtStop, disabledSince, inflight, staleJogs,
                   unheldRelease, monitor, failed, target_pw, velocities,
                   settings, mouse_servo, offTimers, loop_at, ticks, config,
                   accel, pi>>

\* move_to_preset(positions); the thread it starts is t
Tiny_move_to_preset(p, t) ==
    /\ variant = "testiny"
    /\ mainpc.pc = "idle"
    /\ IF Tiny_verify_initialized
       THEN /\ nevents < MaxEvents
            /\ nevents' = nevents + 1
            /\ NextThread(t)
            /\ presets' = [presets EXCEPT ![t] = [NoThread EXCEPT !.st = "snap",
                                                                  !.target = p]]
            /\ button_states' = {}
            /\ status' = "Moving to preset position..."
       ELSE /\ status' = "Hardware not initialized!"
            /\ UNCHANGED <<nevents, presets, button_states>>
    /\ UNCHANGED <<variant, current_pw, hw, mainpc, jogTimers, stopTimers,
                   statusQueue, movement_threads, active_servos, jogs,
                   movement_lock, calib, njog, stopped, pwAtStop,
                   disabledSince, inflight, staleJogs, unheldRelease,
                   monitor, failed, target_pw, velocities, settings,
                   mouse_servo, offTimers, loop_at, ticks, config, accel, pi>>

\* current_positions = self.current_pw.copy() and the increments
Tiny_preset_snapshot(t) ==
    /\ variant = "testiny"
    /\ presets[t].st = "snap"
    /\ presets' = [presets EXCEPT ![t].st = "store", ![t].snap = current_pw,
                                  ![t].step = 1, ![t].k = 1]
    /\ UNCHANGED <<variant, current_pw, hw, button_states, status, mainpc,
                   jogTimers, stopTimers, statusQueue, movement_threads,
                   active_servos, jogs, movement_lock, calib, njog, nevents,
                   stopped, pwAtStop, disabledSince, inflight, staleJogs,
                   unheldRelease, monitor, failed, target_pw, velocities,
                   settings, mouse_servo, offTimers, loop_at, ticks, config,
                   accel, pi>>

\* new_pw of step presets[t].step for joint presets[t].k: for the shoulder
\* through pw_to_angle and angle_to_pw, for the others between the limits
Tiny_preset_new_pw(t) ==
    LET th  == presets[t]
        j   == Tiny_JointOrder[th.k]
        raw == RampValue(th.snap[j], Tiny_preset_positions(th.target)[j],
                         th.step, RampSteps)
    IN  IF j = "SHOULDER" THEN Tiny_angle_to_pw(Tiny_pw_to_angle(raw))
        ELSE Clamp(raw, Tiny_SERVO_LIMITS[j])

\* self.current_pw[name] = new_pw
Tiny_preset_store(t) ==
    /\ variant = "testiny"
    /\ presets[t].st = "store"
    /\ current_pw' = [current_pw EXCEPT ![Tiny_JointOrder[presets[t].k]] =
                                            Tiny_preset_new_pw(t)]
    /\ presets' = [presets EXCEPT ![t].st = "write"]
    /\ UNCHANGED <<variant, hw, button_states, status, mainpc, jogTimers,
                   stopTimers, statusQueue, movement_threads, active_servos,
                   jogs, movement_lock, calib, njog, nevents, stopped,
                   pwAtStop, disabledSince, inflight, staleJogs,
                   unheldRelease, monitor, failed, target_pw, velocities,
                   settings, mouse_servo, offTimers, loop_at, ticks, config,
                   accel, pi>>

\* self.pi.set_servo_pulsewidth(pin, new_pw); after the last one the thread
\* posts its status
Tiny_preset_write(t) ==
    /\ variant = "testiny"
    /\ presets[t].st = "write"
    /\ hw' = [hw EXCEPT ![Tiny_JointOrder[presets[t].k]] = Tiny_preset_new_pw(t)]
    /\ presets' = [presets EXCEPT ![t] = AfterWrite(@, RampSteps)]
    /\ statusQueue' = IF presets'[t].st = "done" THEN statusQueue + 1
                      ELSE statusQueue
    /\ UNCHANGED <<variant, current_pw, button_states, status, mainpc,
                   jogTimers, stopTimers, movement_threads, active_servos,
                   jogs, movement_lock, calib, njog, nevents, stopped,
                   pwAtStop, disabledSince, inflight, staleJogs,
                   unheldRelease, monitor, failed, target_pw, velocities,
                   settings, mouse_servo, offTimers, loop_at, ticks, config,
                   accel, pi>>

\* the callback a finished preset thread posted
Tiny_preset_reached ==
    /\ variant = "testiny"
    /\ mainpc.pc = "idle"
    /\ statusQueue > 0
    /\ statusQueue' = statusQueue - 1
    /\ status' = "Preset position reached"
    /\ UNCHANGED <<variant, current_pw, hw, button_states, mainpc,
                   jogTimers, stopTimers, presets, movement_threads,
                   active_servos, jogs, movement_lock, calib, njog, nevents,
                   stopped, pwAtStop, disabledSince, inflight, staleJogs,
                   unheldRelease, monitor, failed, target_pw, velocities,
                   settings, mouse_servo, offTimers, loop_at, ticks, config,
                   accel, pi>>

NextTiny ==
    \/ \E ok \in BOOLEAN : Tiny_initialize_hardware(ok)
    \/ \E b \in Tiny_Buttons : Tiny_button_press(b)
    \/ \E b \in Tiny_Buttons : Tiny_jog_timer(b)
    \/ Tiny_jog_store
    \/ Tiny_jog_write
    \/ \E b \in Tiny_Buttons : Tiny_button_release(b)
    \/ \E p \in Tiny_PresetNames : Tiny_move_to_preset(p, 1)
    \/ \E t \in ThreadIds : Tiny_preset_snapshot(t)
    \/ \E t \in ThreadIds : Tiny_preset_store(t)
    \/ \E t \in ThreadIds : Tiny_preset_write(t)
    \/ Tiny_preset_reached

\* testiny.py from its construction on, under the INITIALIZE HARDWARE button,
\* jog commands of the shoulder and preset commands, with one preset request
\* in the run
SpecTiny == InitTiny /\ [][NextTiny]_vars

(***************************************************************************)
(* testiny.py: emergency_stop and reactivate_servos, and the run that has  *)
(* them.                                                                   *)
(***************************************************************************)
\* emergency_stop up to its first time.sleep(0.01); on hardware that is not
\* initialized, the status of verify_initialized
Tiny_emergency_stop ==
    /\ variant = "testiny"
    /\ mainpc.pc = "idle"
    /\ IF Tiny_verify_initialized
       THEN /\ nevents < MaxEvents
            /\ nevents' = nevents + 1
            /\ button_states' = {}
            /\ status' = "EMERGENCY STOP ACTIVATED"
            /\ hw' = [hw EXCEPT ![Tiny_JointOrder[1]] = 0]
            /\ mainpc' = [IdleMain EXCEPT !.pc = "estop", !.k = 1]
       ELSE /\ status' = "Hardware not initialized!"
            /\ UNCHANGED <<nevents, button_states, hw, mainpc>>
    /\ UNCHANGED <<variant, current_pw, jogTimers, stopTimers, statusQueue,
                   presets, movement_threads, active_servos, jogs,
                   movement_lock, calib, njog, stopped, pwAtStop,
                   disabledSince, inflight, staleJogs, unheldRelease,
                   monitor, failed, target_pw, velocities, settings,
                   mouse_servo, offTimers, loop_at, ticks, config, accel, pi>>

\* emergency_stop after a sleep: the next pin written 0, or, after the last
\* sleep, root.after(500, self.reactivate_servos)
Tiny_emergency_stop_step ==
    /\ variant = "testiny"
    /\ mainpc.pc = "estop"
    /\ IF mainpc.k < Len(Tiny_JointOrder)
       THEN /\ hw' = [hw EXCEPT ![Tiny_JointOrder[mainpc.k + 1]] = 0]
            /\ mainpc' = [mainpc EXCEPT !.k = @ + 1]
            /\ UNCHANGED stopTimers
       ELSE /\ stopTimers' = stopTimers + 1
            /\ mainpc' = IdleMain
            /\ UNCHANGED hw
    /\ UNCHANGED <<variant, current_pw, button_states, status, jogTimers,
                   statusQueue, presets, movement_threads, active_servos,
                   jogs, movement_lock, calib, njog, nevents, stopped,
                   pwAtStop, disabledSince, inflight, staleJogs,
                   unheldRelease, monitor, failed, target_pw, velocities,
                   settings, mouse_servo, offTimers, loop_at, ticks, config,
                   accel, pi>>

\* reactivate_servos, the callback of root.after(500, ...): its first write;
\* on hardware that is not initialized, the status of verify_initialized
Tiny_reactivate_servos ==
    /\ variant = "testiny"
    /\ mainpc.pc = "idle"
    /\ stopTimers > 0
    /\ stopTimers' = stopTimers - 1
    /\ IF Tiny_verify_initialized
       THEN /\ hw' = [hw EXCEPT ![Tiny_JointOrder[1]] =
                                     current_pw[Tiny_JointOrder[1]]]
            /\ mainpc' = [IdleMain EXCEPT !.pc = "react", !.k = 1]
            /\ UNCHANGED status
       ELSE /\ status' = "Hardware not initialized!"
            /\ UNCHANGED <<hw, mainpc>>
    /\ UNCHANGED <<variant, current_pw, button_states, jogTimers,
                   statusQueue, presets, movement_threads, active_servos,
                   jogs, movement_lock, calib, njog, nevents, stopped,
                   pwAtStop, disabledSince, inflight, staleJogs,
                   unheldRelease, monitor, failed, target_pw, velocities,
                   settings, mouse_servo, offTimers, loop_at, ticks, config,
                   accel, pi>>

\* reactivate_servos: the next write, or the status
Tiny_reactivate_step ==
    /\ variant = "testiny"
    /\ mainpc.pc = "react"
    /\ IF mainpc.k < Len(Tiny_JointOrder)
       THEN /\ hw' = [hw EXCEPT ![Tiny_JointOrder[mainpc.k + 1]] =
                                     current_pw[Tiny_JointOrder[mainpc.k + 1]]]
            /\ mainpc' = [mainpc EXCEPT !.k = @ + 1]
            /\ UNCHANGED status
       ELSE /\ status' = "Ready"
            /\ mainpc' = IdleMain
            /\ UNCHANGED hw
    /\ UNCHANGED <<variant, current_pw, button_states, jogTimers,
                   stopTimers, statusQueue, presets, movement_threads,
                   active_servos, jogs, movement_lock, calib, njog, nevents,
                   stopped, pwAtStop, disabledSince, inflight, staleJogs,
                   unheldRelease, monitor, failed, target_pw, velocities,
                   settings, mouse_servo, offTimers, loop_at, ticks, config,
                   accel, pi>>

NextTinyStop ==
    \/ NextTiny
    \/ Tiny_emergency_stop
    \/ Tiny_emergency_stop_step
    \/ Tiny_reactivate_servos
    \/ Tiny_reactivate_step

\* testiny.py from its construction on, under every command of its window
SpecTinyStop == InitTiny /\ [][NextTinyStop]_vars

(***************************************************************************)
(* Command.py and test.py under jog commands as a mouse gives them: a      *)
(* button is pressed only while none is held.                              *)
(***************************************************************************)
NextRepress ==
    \/ \E b \in Buttons : button_states = {} /\ Cmd_button_press(b)
    \/ \E b \in Buttons : Cmd_jog_timer(b)
    \/ Cmd_jog_store
    \/ Cmd_jog_write
    \/ \E b \in Buttons : Cmd_button_release(b)
    \/ \E b \in Buttons, i \in JogIds :
           button_states = {} /\ Test_button_press(b, i)
    \/ \E i \in JogIds : Test_jog_loop(i)
    \/ \E i \in JogIds : Test_jog_store(i)
    \/ \E i \in JogIds : Test_jog_write(i)
    \/ \E b \in Buttons : Test_button_release(b)

SpecRepress == (InitCommand \/ InitTest) /\ [][NextRepress]_vars

(***************************************************************************)
(* The velocity-eased programs with their tuning sliders set before the   *)
(* first movement and left alone afterwards.                               *)
(***************************************************************************)

\* enhanceSens.py: the sliders "Acceleration" and "Deceleration", each from
\* 0.0 to 1.0 (its default and its upper end)
Enh_AccelerationValues == {ACCELERATION, FromInt(1)}

Enh_DecelerationValues == {DECELERATION, FromInt(1)}

\* yes_but_no.py: _create_parameter_sliders, ACCELERATION and DECELERATION
\* from 0.05 to 0.5 (both at their defaults, both at their upper end)
Elb_RateValues == {<<ACCELERATION, DECELERATION>>, <<Lit(5, 10), Lit(5, 10)>>}

\* yes_but_no.py: _create_parameter_sliders, GRAVITY_FACTOR from 0.0 to 1.0
\* (its ends and its default)
Elb_GravityFactorValues == {FZero, GRAVITY_FACTOR, FromInt(1)}

\* yes_but_no.py: _create_parameter_sliders, GRAVITY_RATIO_FACTOR from 0.0 to
\* 2.0 (its ends and its default)
Elb_GravityRatioValues == {FZero, GRAVITY_RATIO_FACTOR, FromInt(2)}

\* the settings the sliders of the program give
TunedSettings ==
    IF variant = "elbow"
    THEN {[DEFAULT_SETTINGS EXCEPT !.ACCELERATION = ad[1],
                                   !.DECELERATION = ad[2],
                                   !.GRAVITY_FACTOR = g,
                                   !.GRAVITY_RATIO_FACTOR = r] :
             ad \in Elb_RateValues,
             g \in Elb_GravityFactorValues, r \in Elb_GravityRatioValues}
    ELSE {[DEFAULT_SETTINGS EXCEPT !.ACCELERATION = a, !.DECELERATION = d] :
             a \in Enh_AccelerationValues, d \in Enh_DecelerationValues}

\* InitEase with the sliders set
InitTuned ==
    /\ variant \in EaseVariants
    /\ settings \in TunedSettings
    /\ current_pw = [j \in EaseJoints |-> FromInt(CENTER_PW)]
    /\ target_pw = [j \in EaseJoints |-> FromInt(CENTER_PW)]
    /\ velocities = [j \in EaseJoints |-> FZero]
    /\ active_servos = IF variant = "elbow" THEN {"ELBOW"} ELSE {}
    /\ hw = [j \in EaseJoints |-> IF variant = "elbow" THEN CENTER_PW ELSE 0]
    /\ mouse_servo = "None"
    /\ offTimers = [j \in EaseJoints |-> 0]
    /\ loop_at = 1
    /\ ticks = 0
    /\ InitBase

\* the targets are changed with the mouse (enhanceSens.py,
\* elbowsmoothenerandloopfunctions.py) and with the position buttons
\* and the slider (yes_but_no.py), and the loops run
NextTuned ==
    \/ \E name \in EaseJoints : Enh_mouse_control_start(name)
    \/ \E name \in EaseJoints, dx \in MouseOffsets, focused \in BOOLEAN :
           Enh_mouse_control_move(name, dx, focused)
    \/ \E name \in EaseJoints : Enh_mouse_control_end(name)
    \/ ticks < MaxTicks /\ Enh_smooth_movement_loop
    \/ \E value \in ScaleRange(Elb_ELBOW_LIMITS) : Elb_slider_changed(value)
    \/ \E position \in Elb_positions : Elb_set_position(position)
    \/ ticks < MaxTicks /\ Elb_movement_loop

SpecTuned == InitTuned /\ [][NextTuned]_vars

(***************************************************************************)
(* enhanceSens.py and elbowsmoothenerandloopfunctions.py after a click on *)
(* a joint's canvas: mouse_control_start and mouse_control_end have run,  *)
(* the joint is on and its delayed_servo_off is scheduled.                 *)
(***************************************************************************)

InitClicked ==
    /\ variant \in {"enhance", "smoothener"}
    /\ settings = DEFAULT_SETTINGS
    /\ current_pw = [j \in EaseJoints |-> FromInt(CENTER_PW)]
    /\ target_pw = [j \in EaseJoints |-> FromInt(CENTER_PW)]
    /\ velocities = [j \in EaseJoints |-> FZero]
    /\ \E name \in EaseJoints :
           /\ active_servos = {name}
           /\ hw = [j \in EaseJoints |-> IF j = name THEN CENTER_PW ELSE 0]
           /\ offTimers = [j \in EaseJoints |-> IF j = name THEN 1 ELSE 0]
    /\ mouse_servo = "None"
    /\ loop_at = 1
    /\ ticks = 0
    /\ status = "Ready - All servos off"
    /\ InitIdle

NextClicked ==
    \/ \E name \in EaseJoints : Enh_mouse_control_start(name)
    \/ \E name \in EaseJoints, dx \in MouseOffsets, focused \in BOOLEAN :
           Enh_mouse_control_move(name, dx, focused)
    \/ \E name \in EaseJoints : Enh_mouse_control_end(name)
    \/ \E name \in EaseJoints : Enh_delayed_servo_off(name)
    \/ ticks < MaxTicks /\ Enh_smooth_movement_loop

SpecClicked == InitClicked /\ [][NextClicked]_vars

(***************************************************************************)
(* The three programs under any commands, the preset requested in test.py *)
(* being home_position.                                                    *)
(***************************************************************************)

NextAny ==
    \/ NextCommand
    \/ NextImproved
    \/ \E b \in Buttons, i \in JogIds : Test_button_press(b, i)
    \/ \E i \in JogIds : Test_jog_loop(i)
    \/ \E i \in JogIds : Test_jog_store(i)
    \/ \E i \in JogIds : Test_jog_write(i)
    \/ \E b \in Buttons : Test_button_release(b)
    \/ Test_move_to_preset("home", 1)
    \/ \E t \in ThreadIds : Test_preset_on(t)
    \/ \E t \in ThreadIds : Test_preset_snapshot(t)
    \/ \E t \in ThreadIds : Test_preset_store(t)
    \/ \E t \in ThreadIds : Test_preset_write(t)
    \/ \E t \in ThreadIds : Test_preset_off(t)
    \/ Test_preset_reached
    \/ Test_emergency_stop
    \/ Test_stop_ready

SpecAny == Init /\ [][NextAny]_vars

(***************************************************************************)
(* The claims.                                                             *)
(***************************************************************************)

\* SERVO_LIMITS of the program that runs
Limits == CASE variant = "Command" -> Cmd_SERVO_LIMITS
            [] variant = "test" -> Test_SERVO_LIMITS
            [] variant = "improved" -> Imp_SERVO_LIMITS

\* C1: in every reachable state every joint's current_pw is within the
\* joint's limits, the calibration sweep of commandImproved.py included.
C1_PulseWidthWithinLimits ==
    \A j \in Joints : Limits[j][1] <= current_pw[j] /\ current_pw[j] <= Limits[j][2]

\* a step of reactivate_servos that writes joint JointOrder[i]
ReactivateWrites(i) ==
    /\ mainpc'.pc = "react"
    /\ mainpc'.k = i
    /\ mainpc' # mainpc

\* C2: once emergency_stop has been triggered, and before reactivate_servos
\* begins, no preset ramp that was in flight at the stop stores a pulse width
\* into current_pw or writes one to a pin.
C2_StopPreemptsMotion ==
    [][~(stopped /\ \E t \in inflight :
                       Cmd_preset_store(t) \/ Cmd_preset_write(t))]_vars

\* C3: whenever reactivate_servos writes a pin, every joint has been written 0
\* by emergency_stop since the latest emergency stop began, also when the
\* stop was triggered again during the cool-down.
C3_DisableBeforeReactivate ==
    mainpc.pc = "react" => disabledSince = Joints

\* C3 witness: reactivate_servos runs while a second reactivation is still
\* pending, so emergency_stop was triggered again during the cool-down
C3_Witness ==
    /\ mainpc.pc = "react"
    /\ stopTimers = 1
    /\ nevents = 2

\* C4: the pulse width reactivate_servos writes to a joint is the current_pw
\* the joint had when the latest emergency stop was triggered.
C4_ReactivateRestoresPreStop ==
    [][\A i \in 1..Last :
          ReactivateWrites(i) =>
              hw'[JointOrder[i]] = pwAtStop[JointOrder[i]]]_vars

\* C5: a button press or preset request taken after emergency_stop was
\* triggered and before reactivation changes no joint state, starts nothing
\* and writes no pin.
C5_CommandsDiscardedWhileStopped ==
    [][(stopped /\ ( \/ \E b \in Buttons : Cmd_button_press(b)
                     \/ \E p \in PresetNames, t \in ThreadIds :
                            Cmd_move_to_preset(p, t) ))
        => UNCHANGED <<current_pw, hw, button_states, jogTimers, presets,
                       mainpc>>]_vars

C7_NewPresetSupersedes ==
    [][~(presets[2].st # "unborn" /\
         (Cmd_preset_store(1) \/ Cmd_preset_write(1)))]_vars

\* the joint a jog thread is updating (between its read of current_pw and its
\* write to the pin), as a set
JogWrites(i) ==
    IF jogs[i].st \in {"store", "write"} THEN {jogs[i].b[1]} ELSE {}

\* the joint a preset thread is updating, as a set
PresetWrites(t) ==
    IF presets[t].st \in {"store", "write"} THEN {JointOrder[presets[t].k]} ELSE {}

\* C8: no two threads are at the same time between their read and their
\* write of the same joint: not the jog threads of two buttons (the joint's CW
\* and CCW), nor a jog thread and a preset thread.
C8_SingleWriterPerJoint ==
    /\ \A i1, i2 \in JogIds :
           jogs[i1].b # jogs[i2].b => JogWrites(i1) \cap JogWrites(i2) = {}
    /\ \A i \in JogIds, t \in ThreadIds : JogWrites(i) \cap PresetWrites(t) = {}

\* C9: after move_to_preset, no jog thread that was started before it begins
\* another jog step (a pass of its loop that finds a pulse width to set).
C9_PresetEndsJog ==
    [][~(\E i \in staleJogs : Test_jog_loop(i) /\ jogs'[i].st = "store")]_vars

\* C10: button_release for a button that is not held changes none of
\* button_states, current_pw, the active set, the jog threads and their flags
\* and timers, and writes no pin.
C10_UnheldReleaseIsNoOp ==
    [][\A b \in Buttons :
          (b \notin button_states /\ ( \/ Cmd_button_release(b)
                                        \/ Test_button_release(b)
                                        \/ Imp_button_release(b) ))
          => UNCHANGED <<button_states, current_pw, hw, active_servos,
                         movement_threads, jogs, jogTimers, presets, status,
                         mainpc>>]_vars

\* C10 witness: a button was released that was not held, after a jog step, in
\* test.py with a pin on and in Command.py
C10_Witness ==
    /\ unheldRelease
    /\ njog > 0
    /\ \E j \in Joints : hw[j] # 0

\* C11: once a button is released (its flag in movement_threads is False), with
\* no button of its joint held and no preset requested, the jog thread of the
\* button stores no further pulse width into current_pw.
C11_NoJogStepAfterRelease ==
    [][\A i \in JogIds :
          ( /\ jogs[i].st = "store"
            /\ movement_threads[jogs[i].b] = "False"
            /\ \A a \in button_states : a[1] # jogs[i].b[1]
            /\ \A t \in ThreadIds : presets[t].st = "unborn" )
          => ~Test_jog_store(i)]_vars

\* the target vector of preset thread t, as given
RampTarget(t) ==
    IF variant = "Command" THEN Cmd_preset_positions(presets[t].target)
    ELSE Test_preset_positions(presets[t].target)

\* the pulse width preset thread t is about to store or write
RampNewPw(t) ==
    IF variant = "Command" THEN Cmd_preset_new_pw(t) ELSE Test_preset_new_pw(t)

\* the number of steps of preset thread t
RampN(t) == IF variant = "Command" THEN RampSteps ELSE presets[t].n

\* the ramp value of thread t's step when the ramp is laid from the snapshot
\* to the target clamped to the limits
RampToClamped(t) ==
    LET th == presets[t]
        j  == JointOrder[th.k]
    IN  RampValue(th.snap[j], Clamp(RampTarget(t)[j], Limits[j]), th.step, RampN(t))

RampFinished(t) ==
    IF variant = "Command"
    THEN presets[t].st = "done" /\ \A u \in ThreadIds : u > t => presets[u].st = "unborn"
    ELSE presets[t].st = "off"

\* C13: when a preset ramp has run all its steps with no other writer, every
\* joint's current_pw is the target clamped to the limits, and so is the last
\* pulse width written to its pin.
C13_RampEndsAtTarget ==
    \A t \in ThreadIds :
        RampFinished(t) =>
            \A j \in Joints :
                /\ current_pw[j] = Clamp(RampTarget(t)[j], Limits[j])
                /\ hw[j] = current_pw[j]

\* C14: a dispatched jog command is counted by the load monitor, which after
\* the dispatch holds a stability flag that is unstable only if more than 20
\* consecutive rapid dispatches have been counted.
C14_UnstableOnlyAfterBurst ==
    [][\A i \in JogIds :
          Imp_jog_write(i) =>
              /\ monitor'.set
              /\ monitor'.power_stable \/ monitor'.movement_count > 20]_vars

\* C15: after a dispatched jog command the load monitor's counter is 0 only
\* together with a stable flag: a slow gap resets the counter and clears the
\* instability.
C15_SlowGapClears ==
    [][\A i \in JogIds :
          Imp_jog_write(i) =>
              /\ monitor'.set
              /\ monitor'.movement_count = 0 => monitor'.power_stable]_vars

\* a jog thread or a preset thread of test.py calls set_servo_pulsewidth for
\* joint j in this step, whether the call returns or raises
WriteAttempt(j) ==
    \/ \E i \in JogIds :
          jogs[i].st = "write" /\ jogs[i].b[1] = j
          /\ (Test_jog_write(i) \/ Test_jog_write_error(i))
    \/ \E t \in ThreadIds :
          presets[t].st = "write" /\ JointOrder[presets[t].k] = j
          /\ (Test_preset_write(t) \/ Test_preset_write_error(t))

\* C16: once a write to a joint's pin has raised, no jog step and no ramp step
\* calls set_servo_pulsewidth for that joint again.
C16_NoWriteAfterFault ==
    [][\A j \in Joints : j \in failed => ~WriteAttempt(j)]_vars

\* C17: when a write of a preset ramp raises, the ramp is aborted, and every
\* joint's current_pw is the pulse width last written to its pin.
C17_AbortKeepsWrittenPosition ==
    [][\A t \in ThreadIds :
          (Test_preset_write_error(t) \/ Imp_preset_write_error(t)) =>
              /\ presets'[t].st = "aborted"
              /\ \A j \in Joints : current_pw'[j] = hw'[j]]_vars

\* |target_pw - current_pw| of a joint of a velocity-eased program
EaseGap(j) == FAbs(FSub(target_pw[j], current_pw[j]))

\* C18: in every reachable state of the velocity-eased programs the target_pw
\* of every joint lies within the joint's limits [min_pw, max_pw], whatever
\* the slider changes, mouse drags, set_position, move_up, move_down and
\* preset requests asked for
C18_TargetWithinLimits ==
    \A j \in EaseJoints :
        /\ ~FLess(target_pw[j], FromInt(EaseLimits(j)[1]))
        /\ ~FLess(FromInt(EaseLimits(j)[2]), target_pw[j])

\* a mouse drag has asked for more than max_pw (only a drag can leave the
\* target at the limit: no slider value of the model is one) and the target
\* is max_pw
C18_Witness ==
    /\ variant = "enhance"
    /\ mouse_servo = "BASE"
    /\ target_pw["BASE"] = FromInt(Enh_SERVO_LIMITS("BASE")[2])

\* the step is a visit of joint j by the movement loop that does not skip it
\* and finds it within 1 microsecond of its target
SnapVisit(j) ==
    /\ ~FLess(FromInt(1), EaseGap(j))
    /\ \/ /\ Enh_smooth_movement_loop
          /\ j = EaseOrder[loop_at]
          /\ (j \in active_servos \/ ~FLess(EaseGap(j), FromInt(1)))
       \/ /\ Elb_movement_loop
          /\ j \in active_servos

\* C19 as amended: a visit of a joint that is within 1 microsecond of its
\* target sets the joint's velocity to 0; it sets current_pw to exactly
\* target_pw if the joint is in the active set and leaves current_pw as it
\* was if it is not
C19_SnapOnlyWhenActive ==
    [][\A j \in EaseJoints :
           SnapVisit(j) =>
               /\ velocities'[j] = FZero
               /\ current_pw'[j] = IF j \in active_servos THEN target_pw[j]
                                   ELSE current_pw[j]]_vars

\* C19 as stated: a visit of a joint that is within 1 microsecond of its
\* target sets the joint's velocity to 0 and its current_pw to exactly
\* target_pw, whether or not the joint is in the active set
C19_SnapWithinEps ==
    [][\A j \in EaseJoints :
           SnapVisit(j) =>
               /\ velocities'[j] = FZero
               /\ current_pw'[j] = target_pw[j]]_vars

\* the active BASE has been snapped from 1500 to its target 1501, and the
\* GRIPPER, not active, stays at 1500, 1 microsecond from its target, after
\* the loop has passed
C19_Witness ==
    /\ variant = "enhance"
    /\ "BASE" \in active_servos
    /\ current_pw["BASE"] = FromInt(1501)
    /\ target_pw["BASE"] = FromInt(1501)
    /\ "GRIPPER" \notin active_servos
    /\ target_pw["GRIPPER"] = FromInt(1499)
    /\ current_pw["GRIPPER"] = FromInt(CENTER_PW)
    /\ velocities["GRIPPER"] = FZero
    /\ ticks >= 2

\* the pulse width c is within 1 microsecond of 1800
Within1Of(c) == ~FLess(FromInt(1), FAbs(FSub(FromInt(1800), c)))

\* current_pw of BASE is within 1 microsecond of 1800
Within1 == Within1Of(current_pw["BASE"])

\* C20: from 1500, with limits (600, 2400), STEP_SIZE 10 and the constant
\* target 1800, 177 passes of the movement loop are enough to bring
\* current_pw within 1 of 1800; once within 1 of 1800 it stays there; and
\* current_pw never exceeds 2400
C20_Converges ==
    /\ [](ticks >= 177 => Within1)
    /\ [][Within1 => Within1Of(current_pw'["BASE"])]_vars
    /\ [](~FLess(FromInt(2400), current_pw["BASE"]))

\* the joint has come from 1500 to within 1 of 1800 in 177 passes
C20_Witness ==
    /\ ticks = 177
    /\ Within1
    /\ FLess(FromInt(1799), current_pw["BASE"])

\* the pulse widths that the preset threads about to store one for joint j
\* would store
PendingStores(j) ==
    {Cmd_preset_new_pw(t) :
        t \in {u \in ThreadIds : /\ presets[u].st = "store"
                                 /\ JointOrder[presets[u].k] = j}}

\* C21: the next pulse width stored for a joint is determined by the commands
\* given and the steps done so far: whenever preset ramps are about to store
\* current_pw of one joint, they are about to store the same value, so that
\* the order the scheduler runs them in does not change the joint's
\* trajectory.
C21_NextPulseWidthDetermined ==
    \A j \in Joints : Cardinality(PendingStores(j)) <= 1

\* C22: once cleanup has completed, the last pulse width commanded on every
\* joint's channel is 0.
C22_AllDisabledAfterCleanup ==
    mainpc.pc = "closed" => \A j \in Joints : hw[j] = 0

\* the largest distance a joint of preset thread t has to go, from the
\* thread's copy of current_pw to its target (as validated against the limits)
FarthestDistance(t) ==
    MaxOf({Abs(Test_validated(presets[t].target, j) - presets[t].snap[j]) :
              j \in Joints})

\* that distance divided by 10, at least 1 and at most 100
AdaptiveStepCount(t) == Min(Max(FarthestDistance(t) \div 10, 1), 100)

\* C23: in test.py the step count of a preset ramp is the largest
\* |target - current| over the joints divided by 10 (integer division), at
\* least 1 and at most 100, and the step of every joint is computed with that
\* one count.
C23_StepCountAdaptive ==
    \A t \in ThreadIds :
        (variant = "test" /\ presets[t].st \in {"store", "write"}) =>
            /\ presets[t].n = AdaptiveStepCount(t)
            /\ Test_preset_new_pw(t) =
                   Clamp(RampValue(presets[t].snap[JointOrder[presets[t].k]],
                                   Test_validated(presets[t].target,
                                                  JointOrder[presets[t].k]),
                                   presets[t].step, AdaptiveStepCount(t)),
                         Test_SERVO_LIMITS[JointOrder[presets[t].k]])

\* the ramp from the upper limit of BASE to place_position: 1200 to go, 120
\* by the division, 100 steps after the cap, and GRIPPER is on its last step
\* of the same 100
C23_Witness ==
    \E t \in ThreadIds :
        /\ variant = "test"
        /\ presets[t].target = "place"
        /\ presets[t].snap["BASE"] = 2400
        /\ presets[t].st = "store"
        /\ presets[t].n = 100
        /\ presets[t].step = 100
        /\ JointOrder[presets[t].k] = "GRIPPER"

\* a call of connect_to_pigpio is in progress
Connecting == pi.pc # "none"

\* C24: a call of connect_to_pigpio makes at most max_attempts (3) attempts;
\* it returns in the pass whose attempt succeeds, with the connected handle;
\* when it returns a handle that is not connected it has made all 3 attempts;
\* and every call returns.
C24_ConnectBounded ==
    /\ [](pi.made <= Test_max_attempts)
    /\ [][(pi.pc = "attempt" /\ pi'.made = pi.made + 1 /\ pi'.h)
              => (~Connecting' /\ pi'.connected)]_vars
    /\ [][(Connecting /\ ~Connecting' /\ ~pi'.connected)
              => (pi'.made = Test_max_attempts /\ ~pi'.h)]_vars
    /\ (Connecting ~> ~Connecting)

\* check_servo_connections has called connect_to_pigpio after the connection
\* was lost, and the call has returned the failed handle of its third attempt
C24_Witness ==
    /\ pi.caller = "check"
    /\ ~Connecting
    /\ ~pi.connected
    /\ pi.made = Test_max_attempts
    /\ mainpc.pc = "check"

\* the configuration has a joint with min_pw >= max_pw or min_pw < 0, or two
\* joints on one channel
ConfigInvalid ==
    \/ \E j \in Joints : config.limits[j][1] >= config.limits[j][2]
    \/ \E j \in Joints : config.limits[j][1] < 0
    \/ \E j, k \in Joints : j # k /\ config.pins[j] = config.pins[k]

\* C25: with an invalid configuration construction fails: no pin is ever
\* written and the controller never waits for commands.
C25_InvalidConfigIsFatal ==
    ConfigInvalid => /\ \A j \in Joints : hw[j] = 0
                     /\ mainpc.pc = "init"
                     /\ button_states = {}

\* C26: a pass of the jog loop of commandImproved.py that has written its
\* step then sleeps for the base interval times 1.5 while the load flag is
\* unstable and times 1.0 while it is stable (the program has no speed
\* factor: 1).
C26_DelayAfterJogStep ==
    [][\A i \in JogIds :
          Imp_jog_write(i) =>
              /\ jogs'[i].st = "loop"
              /\ jogs'[i].delay \in {Imp_DEFAULT_INTERVAL,
                                     (Imp_DEFAULT_INTERVAL * 3) \div 2}
              /\ (jogs'[i].delay = Imp_DEFAULT_INTERVAL)
                     <=> (monitor'.set /\ monitor'.power_stable)]_vars

\* a call of _move_with_acceleration has built its increments
ProfileBuilt == accel.st \in {"write", "store", "raised"}

\* C27: the increments that _move_with_acceleration builds sum to
\* target_pw - current, and when the call has returned the joint is at the
\* target.
C27_ProfileEndsAtTarget ==
    /\ ProfileBuilt =>
           SumBetween(accel.increments, 1, Len(accel.increments))
               = accel.target - accel.current
    /\ accel.st = "returned" => current_pw[accel.name] = accel.target

\* the pulse width a jog step moves to: up by the step but not above the maximum
\* for CCW, down by the step but not below the minimum for CW
JogStepValue(cur, dir, step, lim) ==
    IF dir = "CCW"
    THEN (IF cur + step <= lim[2] THEN cur + step ELSE lim[2])
    ELSE (IF cur - step >= lim[1] THEN cur - step ELSE lim[1])

\* C28: in Command.py, test.py and gripperCon.py a jog step of a held button
\* moves the servo from the pulse width it read to that plus the step, at most
\* the maximum, for CCW, and to that minus the step, at least the minimum, for
\* CW; a step that finds the servo at the limit of its direction changes
\* neither current_pw nor any pin and leaves the loop running (the callback
\* scheduled again, the thread in its loop); the loop ends at the first pass
\* after the release.
C28_JogStepClamped ==
    [][/\ \A b \in Buttons :
              /\ (Cmd_button_press(b) \/ Cmd_jog_timer(b)) =>
                     LET cur == current_pw[b[1]]
                         new == JogStepValue(cur, b[2], Cmd_DEFAULT_STEP,
                                             config.limits[b[1]])
                     IN  IF b \notin button_states'
                         THEN /\ UNCHANGED <<current_pw, hw>>
                              /\ jogTimers'[b] = jogTimers[b] - 1
                         ELSE IF new = cur
                         THEN /\ UNCHANGED <<current_pw, hw>>
                              /\ jogTimers'[b] > 0
                         ELSE /\ mainpc'.pc = "jog_store"
                              /\ mainpc'.b = b
                              /\ mainpc'.new = new
              /\ (Grip_button_press(b) \/ Grip_jog_timer(b)) =>
                     LET cur == current_pw["GRIPPER"]
                         new == JogStepValue(cur, b[2], Grip_SERVO_STEP,
                                             <<Grip_CLOSED_PW, Grip_OPEN_PW>>)
                     IN  IF b \notin button_states'
                         THEN /\ UNCHANGED <<current_pw, hw>>
                              /\ jogTimers'[b] = jogTimers[b] - 1
                         ELSE IF new = cur
                         THEN /\ UNCHANGED <<current_pw, hw>>
                              /\ jogTimers'[b] > 0
                         ELSE /\ current_pw' =
                                     [current_pw EXCEPT !["GRIPPER"] = new]
                              /\ hw' = [hw EXCEPT !["GRIPPER"] = new]
                              /\ jogTimers'[b] > 0
       /\ Cmd_jog_store =>
              /\ current_pw'[mainpc.b[1]] =
                     JogStepValue(current_pw[mainpc.b[1]], mainpc.b[2],
                                  Cmd_DEFAULT_STEP, config.limits[mainpc.b[1]])
              /\ mainpc'.pc = "jog_write"
       /\ Cmd_jog_write =>
              /\ hw'[mainpc.b[1]] = current_pw[mainpc.b[1]]
              /\ jogTimers'[mainpc.b] > 0
       /\ \A i \in JogIds :
              /\ Test_jog_loop(i) =>
                     LET b   == jogs[i].b
                         cur == current_pw[b[1]]
                         new == JogStepValue(cur, b[2], Test_STEP_SIZES[b[1]],
                                             Test_SERVO_LIMITS[b[1]])
                     IN  IF movement_threads[b] # "True"
                         THEN /\ UNCHANGED <<current_pw, hw>>
                              /\ jogs'[i].st = "ended"
                         ELSE IF new = cur
                         THEN /\ UNCHANGED <<current_pw, hw>>
                              /\ jogs'[i].st = "loop"
                         ELSE /\ jogs'[i].st = "store"
                              /\ jogs'[i].new = new
              /\ Test_jog_store(i) =>
                     /\ current_pw'[jogs[i].b[1]] = jogs[i].new
                     /\ jogs'[i].st = "write"
              /\ Test_jog_write(i) =>
                     /\ hw'[jogs[i].b[1]] = jogs[i].new
                     /\ jogs'[i].st = "loop"
      ]_vars

\* test.py: BASE CW is held, BASE is at its minimum and the thread, having
\* made a pass that found it there, is still in its loop
C28_Witness ==
    /\ variant = "test"
    /\ current_pw["BASE"] = Test_SERVO_LIMITS["BASE"][1]
    /\ njog = 2
    /\ \E i \in JogIds :
           /\ jogs[i].st = "loop"
           /\ jogs[i].b = <<"BASE", "CW">>
           /\ movement_threads[jogs[i].b] = "True"

\* the jog loops and preset ramps of commandImproved.py that are inside
\* "with self.movement_lock"
InWriteLoop ==
    {<<"jog", i>> : i \in {u \in JogIds : jogs[u].st \in {"loop", "store", "write"}}}
    \cup {<<"preset", t>> :
              t \in {u \in ThreadIds : presets[u].st \in {"snap", "store", "write"}}}

\* C29: in commandImproved.py at most one jog loop or preset ramp is inside its
\* write loop at any time, and the lock is taken exactly while one is, so a
\* store or write of a jog loop or preset ramp is made by the one thread inside;
\* a jog loop that has obtained the lock while its button is not held ends at
\* its loop test without changing current_pw or a pin.
C29_MotionLoopsExclusive ==
    /\ [](variant = "improved" =>
              /\ Cardinality(InWriteLoop) <= 1
              /\ (movement_lock = "free") = (InWriteLoop = {}))
    /\ [][variant = "improved" =>
              \A i \in JogIds :
                  /\ (\/ Imp_jog_store(i)
                      \/ Imp_jog_write(i)) => InWriteLoop = {<<"jog", i>>}
                  /\ (/\ jogs[i].st = "loop"
                      /\ jogs[i].b \notin button_states
                      /\ jogs'[i] # jogs[i]) =>
                         /\ jogs'[i].st = "ended"
                         /\ UNCHANGED <<current_pw, hw>>
                         /\ njog' = njog]_vars
    /\ [][variant = "improved" =>
              \A t \in ThreadIds :
                  (\/ Imp_preset_store(t)
                   \/ Imp_preset_write(t)) => InWriteLoop = {<<"preset", t>>}]_vars

\* the second jog thread has obtained the lock with its button released, after
\* the first, which made a step, gave it up
C29_Witness ==
    /\ variant = "improved"
    /\ jogs[1].st = "ended"
    /\ jogs[1].new # 0
    /\ jogs[2].st = "loop"
    /\ jogs[2].b \notin button_states

\* the least and the greatest pulse width of the shoulder
ShoulderRange ==
    <<Tiny_angle_to_pw(Tiny_SHOULDER_MIN_ANGLE * 100),
      Tiny_angle_to_pw(Tiny_SHOULDER_MAX_ANGLE * 100)>>

\* the end of the shoulder's range that a jog of direction dir moves to
ShoulderEnd(dir) == IF dir = "CCW" THEN ShoulderRange[2] ELSE ShoulderRange[1]

\* C30: in testiny.py, once initialize_hardware has set current_pw, the
\* SHOULDER's current_pw is between angle_to_pw(40) and angle_to_pw(60) at every
\* moment of every run of jog steps and preset ramps; and a jog step of a held
\* shoulder button that finds the shoulder short of the end of its direction
\* moves it strictly nearer to that end, without passing it, while one that
\* finds it at the end changes nothing.
C30_ShoulderRestricted ==
    /\ []("SHOULDER" \in DOMAIN current_pw =>
              /\ current_pw["SHOULDER"] >= ShoulderRange[1]
              /\ current_pw["SHOULDER"] <= ShoulderRange[2])
    /\ [][\A b \in Tiny_Buttons :
              (/\ Tiny_button_press(b) \/ Tiny_jog_timer(b)
               /\ Tiny_verify_initialized
               /\ b \in button_states') =>
                  LET cur == current_pw["SHOULDER"]
                  IN  IF cur = ShoulderEnd(b[2])
                      THEN /\ mainpc'.pc = "idle"
                           /\ UNCHANGED <<current_pw, hw>>
                           /\ jogTimers'[b] > 0
                      ELSE /\ mainpc'.pc = "jog_store"
                           /\ Abs(ShoulderEnd(b[2]) - mainpc'.new)
                                  < Abs(ShoulderEnd(b[2]) - cur)
                           /\ (mainpc'.new - cur) * (ShoulderEnd(b[2]) - cur) > 0
                           /\ mainpc'.new >= ShoulderRange[1]
                           /\ mainpc'.new <= ShoulderRange[2]]_vars
    /\ [][Tiny_jog_store => current_pw'["SHOULDER"] = mainpc.new]_vars

\* the shoulder, taken to its least pulse width by the pick preset, with its CW
\* button held after a jog pass
C30_Witness ==
    /\ variant = "testiny"
    /\ Tiny_verify_initialized
    /\ current_pw["SHOULDER"] = ShoulderRange[1]
    /\ <<"SHOULDER", "CW">> \in button_states
    /\ jogTimers[<<"SHOULDER", "CW">>] > 0
    /\ njog >= 1

\* a handler of a command of testiny.py's window runs
TinyCommand ==
    \/ \E b \in Tiny_Buttons : Tiny_button_press(b) \/ Tiny_button_release(b)
    \/ \E p \in Tiny_PresetNames, t \in ThreadIds : Tiny_move_to_preset(p, t)
    \/ Tiny_emergency_stop
    \/ Tiny_reactivate_servos

\* C31: in testiny.py, until initialize_hardware has succeeded no pin is
\* pulsed, no button is recorded as held, no loop or thread is started and
\* current_pw has no entry; and a jog press or release, preset request,
\* emergency stop or reactivation that finds the hardware not initialized
\* writes no pin and changes neither button_states nor current_pw.
C31_NoCommandBeforeInit ==
    /\ [](variant = "testiny" /\ DOMAIN current_pw = {} =>
              /\ \A j \in Tiny_Joints : hw[j] = 0
              /\ button_states = {}
              /\ mainpc = IdleMain
              /\ \A b \in Tiny_Buttons : jogTimers[b] = 0
              /\ stopTimers = 0
              /\ \A t \in ThreadIds : presets[t].st = "unborn")
    /\ [][(variant = "testiny" /\ ~Tiny_verify_initialized /\ TinyCommand) =>
              UNCHANGED <<hw, button_states, current_pw, presets, jogTimers,
                          mainpc>>]_vars

\* a command was given to hardware that initialize_hardware has tried and
\* failed to initialize
C31_Witness ==
    /\ variant = "testiny"
    /\ DOMAIN current_pw = {}
    /\ pi.h
    /\ ~pi.connected
    /\ status = "Hardware not initialized!"

\* the jog loops of button b that are live: in Command.py the callbacks of
\* move_servo_continuously that are scheduled or running, in test.py the
\* threads of move_servo_continuously that have not ended
LiveJogLoops(b) ==
    IF variant = "Command"
    THEN jogTimers[b]
         + (IF mainpc.pc \in {"jog_store", "jog_write"} /\ mainpc.b = b
            THEN 1 ELSE 0)
    ELSE Cardinality({i \in JogIds : /\ jogs[i].b = b
                                     /\ jogs[i].st \in {"loop", "store", "write"}})

\* C32: in Command.py and test.py a button that is held has at most one live
\* jog loop, whatever presses and releases came before.
C32_OneJogLoopPerButton ==
    variant \in {"Command", "test"} =>
        \A b \in Buttons : b \in button_states => LiveJogLoops(b) <= 1

\* a motion loop is in the middle of a step: between its computation of a new
\* pulse width and the end of the write of it, or the main thread is inside a
\* handler
StepInProgress ==
    \/ mainpc.pc # "idle"
    \/ \E i \in JogIds : jogs[i].st \in {"store", "write"}
    \/ \E t \in ThreadIds : presets[t].st \in {"store", "write"}

\* C33: whenever no motion loop is in the middle of a step, a channel that
\* carries pulses carries those of its joint's current_pw.
C33_PinMatchesCurrentPw ==
    ~StepInProgress =>
        \A j \in Joints : hw[j] # 0 => hw[j] = current_pw[j]

\* C34: in test.py the servo of every button recorded as held is a member of
\* active_servos, so that active_servos.remove in button_release finds it.
C34_HeldServoIsActive ==
    variant = "test" => \A b \in button_states : b[1] \in active_servos

\* C35: the load-monitor state exists when a jog step of commandImproved.py
\* is dispatched, so the step evaluates _check_movement_frequency without
\* error, and the jog loop of a button that is still held goes on to its next
\* pass.
C35_JogLoopKeepsRunning ==
    [][\A i \in JogIds :
          (Imp_jog_write(i) /\ jogs[i].b \in button_states) =>
              /\ monitor.set
              /\ jogs'[i].st = "loop"]_vars

\* step_size * speed_factor: what max_velocity is at most
Ease_velocity_bound == FMul(FromInt(settings.STEP_SIZE), Enh_speed_factor)

\* C36: with the tuning sliders left alone, the magnitude of every joint's
\* velocity is at most step_size * speed_factor in every reachable state.
C36_VelocityBounded ==
    variant \in EaseVariants =>
        \A j \in EaseJoints : ~FLess(Ease_velocity_bound, FAbs(velocities[j]))

\* a joint moves at the bound itself, and a joint has a velocity that points
\* away from its target: the target was changed to the other side
C36_Witness ==
    /\ variant \in EaseVariants
    /\ \E j \in EaseJoints : FAbs(velocities[j]) = Ease_velocity_bound
    /\ \E j \in EaseJoints :
           FLess(FMul(velocities[j], FSub(target_pw[j], current_pw[j])), FZero)

\* yes_but_no.py: the gravity_assist that smooth_elbow_movement works out for
\* the elbow where it is, on its way to target
Elb_gravity_assist_at(target) ==
    Elb_gravity_assist(FSub(target, current_pw["ELBOW"]),
                       FMul(Ease_position_ratio(current_pw["ELBOW"], Elb_ELBOW_LIMITS),
                            settings.GRAVITY_RATIO_FACTOR))

\* C37: the gravity assist of a move of the elbow of yes_but_no.py is <= 0
\* when the target is below the current position and >= 0 otherwise,
\* wherever within its limits the elbow is and whatever the sliders of
\* GRAVITY_FACTOR and GRAVITY_RATIO_FACTOR are set to (a move: the target is
\* more than 1 away).
C37_GravityAssistFollowsTravel ==
    (/\ variant = "elbow"
     /\ FLess(FromInt(1), FAbs(FSub(target_pw["ELBOW"], current_pw["ELBOW"])))) =>
        IF FLess(target_pw["ELBOW"], current_pw["ELBOW"])
        THEN ~FLess(FZero, Elb_gravity_assist_at(target_pw["ELBOW"]))
        ELSE ~FLess(Elb_gravity_assist_at(target_pw["ELBOW"]), FZero)

\* C38: in enhanceSens.py (and with the loop of
\* elbowsmoothenerandloopfunctions.py) the servo that is under mouse control
\* is in active_servos and its channel carries pulses, whatever
\* delayed_servo_off an earlier drag has left scheduled.
C38_GrabbedServoStaysOn ==
    (variant \in {"enhance", "smoothener"} /\ mouse_servo # "None") =>
        /\ mouse_servo \in active_servos
        /\ hw[mouse_servo] # 0

\* C39: every value a preset ramp stores for a joint lies between the value
\* the joint had before the store and the joint's target: the joint moves
\* towards the target, or stays, and does not pass it.
C39_RampMonotone ==
    [][\A t \in ThreadIds :
          (Cmd_preset_store(t) \/ Test_preset_store(t)) =>
              LET j     == JointOrder[presets[t].k]
                  start == presets[t].snap[j]
                  tgt   == RampTarget(t)[j]
              IN  /\ tgt >= start =>
                         current_pw[j] <= current_pw'[j] /\ current_pw'[j] <= tgt
                  /\ tgt <= start =>
                         current_pw'[j] <= current_pw[j] /\ current_pw'[j] >= tgt]_vars
====
